---- MODULE Spec2Model ----
(***************************************************************************)
(* Model of the three timeline engines of maximumPlasoTimelineParser:      *)
(*   "base" = MaximumPlasoParser      (src/MaximumPlasoParser.py)          *)
(*   "json" = MaximumPlasoParserJson  (src/MaximumPlasoParserJson.py)      *)
(*   "csv"  = MaximumPlasoParserCsv   (src/MaximumPlasoParserCSV.py)       *)
(* One step of the model is one iteration of parse_timeline's loop: a line *)
(* is read, classified, extracted and written.  Strings are represented by *)
(* the regex literals they contain (Lits), a table lookup is the code's    *)
(* for-loop over the dict, a row is the list of the fields the extractor   *)
(* formats, and an output stream is the list of write() calls it received. *)
(***************************************************************************)
EXTENDS Integers, Sequences, FiniteSets, TLC

VARIABLES engine, output_type, separator, config, files, streams, nLines, linesRead,
          pc, aborted, sourceFailed, closeRaised, last

vars == <<engine, output_type, separator, config, files, streams, nLines, linesRead,
          pc, aborted, sourceFailed, closeRaised, last>>

\* ------------------------------------------------------------------ bounds
\* number of lines of the input timeline
MaxLines == 2

\* ------------------------------------------------------------ vocabulary
Engines == {"base", "json", "csv"}
OutputTypes == {"csv", "json"}
\* -s/--separator: the default and one other value
Separators == {"|", ";"}

\* Python's None (an absent key of the record)
NONE == "NONE"

\* The regex literals that occur in a string of the vocabulary: re.search of
\* an alternation of literals succeeds iff one of them is a substring.
Lits(s) ==
  CASE s = "winevtx" -> {"winevtx"}
    [] s = "winreg/windows_run" -> {"winreg", "windows_run"}
    [] s = "winreg/bagmru/shell_items" -> {"winreg", "bagmru", "mru"}
    [] s = "winreg/mrulistex_string" -> {"winreg", "mru"}
    [] s = "winreg/amcache" -> {"winreg", "amcache"}
    [] s = "winreg/windows_sam_users" -> {"winreg", "windows_sam_users"}
    [] s = "winreg/userassist" -> {"winreg", "userassist"}
    [] s = "winreg/appcompatcache" -> {"winreg", "appcompatcache"}
    [] s = "sqlite/firefox_history" -> {"sqlite", "firefox_history"}
    [] s = "esedb/srum" -> {"esedb", "srum"}
    [] s = "lnk" -> {"lnk"}
    [] s = "prefetch" -> {"prefetch"}
    [] s = "filestat" -> {"filestat"}
    [] s = "usnjrnl" -> {"usnjrnl"}
    [] s = "mft" -> {"mft"}
    [] s = "Microsoft-Windows-Security-Auditing" -> {"Microsoft-Windows-Security-Auditing"}
    [] s = "Service Control Manager" -> {"Service Control Manager"}
    [] s = "Microsoft-Windows-TaskScheduler" -> {"Microsoft-Windows-TaskScheduler"}
    [] s = "Microsoft-Windows-Bits-Client" -> {"Microsoft-Windows-Bits-Client"}
    [] s = "Microsoft-Windows-TerminalServices-LocalSessionManager" ->
           {"Microsoft-Windows-TerminalServices-LocalSessionManager"}
    [] s = "Microsoft-Windows-PowerShell" -> {"Microsoft-Windows-PowerShell", "PowerShell"}
    [] s = "Microsoft-Windows-WMI-Activity" -> {"Microsoft-Windows-WMI-Activity"}
    [] s = "Microsoft-Windows-Application-Experience" -> {"Microsoft-Windows-Application-Experience"}
    [] s = "Microsoft-Windows-Windows Defender" -> {"Microsoft-Windows-Windows Defender"}
    [] s = "Security.evtx" -> {"Security.evtx"}
    [] s = "System.evtx" -> {"System.evtx"}
    [] s = "Microsoft-Windows-TaskScheduler%4Operational.evtx" ->
           {"TaskScheduler%4Operational.evtx", "Microsoft-Windows-TaskScheduler"}
    [] s = "Amcache.hve" -> {"Amcache.hve"}
    [] OTHER -> {}

\* ------------------------------------------------- classification tables
\* Each table is the dict of compiled patterns in its insertion order.
E(k, p) == [key |-> k, pat |-> p]

d_regex_type_artefact(eng) ==
  IF eng = "base"
  THEN << E("evtx", {"winevtx"}), E("hive", {"winreg"}), E("db", {"sqlite", "esedb"}),
          E("winFile", {"lnk", "text", "prefetch"}) >>
  ELSE << E("evtx", {"winevtx"}), E("hive", {"winreg"}), E("db", {"sqlite", "esedb"}),
          E("winFile", {"lnk", "text", "prefetch"}),
          E("mft", {"filestat", "usnjrnl", "mft"}) >>

d_regex_aterfact_by_file_name ==
  << E("security", {"Security.evtx"}), E("system", {"System.evtx"}),
     E("taskScheduler", {"TaskScheduler%4Operational.evtx"}),
     E("bits", {"Bits-Client%4Operational.evtx"}),
     E("rdp_local", {"TerminalServices-LocalSessionManager%4Operational.evtx"}),
     E("powershell", {"Microsoft-Windows-PowerShell%4Operational.evtx", "Windows_PowerShell.evtx"}),
     E("wmi", {"Microsoft-Windows-WMI-Activity%4Operational.evtx"}),
     E("application_experience", {"Microsoft-Windows-Application-Experience%4Program-Telemetry.evtx"}),
     E("amcache", {"Amcache.hve"}), E("appCompat", {"Amcache.hve"}) >>

d_regex_artefact_by_source_name(eng) ==
  << E("security", {"Microsoft-Windows-Security-Auditing"}),
     E("system", {"Service Control Manager"}),
     E("taskScheduler", {"TaskScheduler%4Operational.evtx"}),
     E("bits", {"Microsoft-Windows-Bits-Client"}),
     E("rdp_local", {"Microsoft-Windows-TerminalServices-LocalSessionManager"}),
     E("powershell", {"Microsoft-Windows-PowerShell", "PowerShell"}),
     E("wmi", {"Microsoft-Windows-WMI-Activity"}),
     E("application_experience", {"Microsoft-Windows-Application-Experience"}) >>
  \o (IF eng = "json" THEN << E("windefender", {"Microsoft-Windows-Windows Defender"}) >> ELSE << >>)

d_regex_artefact_by_parser_name(eng) ==
  << E("amcache", {"amcache"}), E("appCompat", {"appcompatcache"}),
     E("sam", {"windows_sam_users"}), E("userassist", {"userassist"}),
     E("mru", {"bagmru", "mru"}), E("ff_history", {"firefox_history"}),
     E("prefetch", {"prefetch"}), E("lnk", {"lnk"}), E("srum", {"srum"}),
     E("run", {"windows_run"}) >>
  \o (IF eng = "json" THEN << E("mft", {"filestat", "usnjrnl", "mft"}) >> ELSE << >>)

\* the line-oriented engine's single subtype table, searched in the whole line
d_regex_artefact_by_source ==
  << E("security", {"Microsoft-Windows-Security-Auditing"}),
     E("service", {"Service Control Manager"}),
     E("taskScheduler", {"Microsoft-Windows-TaskScheduler"}),
     E("bits", {"Microsoft-Windows-Bits-Client"}),
     E("rdp_local", {"Microsoft-Windows-TerminalServices-LocalSessionManager"}),
     E("powershell", {"Microsoft-Windows-PowerShell", "PowerShell"}),
     E("wmi", {"Microsoft-Windows-WMI-Activity"}),
     E("application_experience", {"Microsoft-Windows-Application-Experience"}),
     E("sam", {"windows_sam_users"}), E("amcache", {"Amcache Registry"}),
     E("app_compat", {"AppCompatCache Registry"}), E("run", {"windows_run"}),
     E("user_assist", {"userassist"}), E("mru", {"bagmru", "mru"}),
     E("ff_history", {"firefox_history"}), E("prefetch", {"prefetch"}),
     E("lnk", {"lnk"}), E("srum", {"srum"}),
     E("mft", {"usnjrnl", "mft", "filestat"}) >>

\* for key, value in table.items(): if re.search(value, s): return key
\* (falls off the end, returning None, when nothing matches)
RECURSIVE ScanTable(_, _, _)
RECURSIVE ScanTableLast(_, _, _)
\* variant in which a later matching entry overrides an earlier one
ScanTableLast(table, lits, i) ==
  IF i > Len(table) THEN "None"
  ELSE LET r == ScanTableLast(table, lits, i + 1) IN
       IF r # "None" THEN r
       ELSE IF table[i].pat \cap lits # {} THEN table[i].key ELSE "None"
ScanTable(table, lits, i) ==
  IF i > Len(table) THEN "None"
  ELSE IF table[i].pat \cap lits # {} THEN table[i].key
  ELSE ScanTable(table, lits, i + 1)

\* ------------------------------------------------------- output handles
Handles ==
  {"logon_res_file", "logon_failed_file", "logon_spe_file", "logon_exp_file",
   "new_proc_file", "task_scheduler_file", "remote_rdp_file", "local_rdp_file",
   "bits_file", "service_file", "powershell_file", "powershell_script_file",
   "wmi_file", "app_exp_file", "amcache_res_file", "app_compat_res_file",
   "sam_res_file", "user_assist_file", "mru_res_file", "ff_history_res_file",
   "ie_history_res_file", "prefetch_res_file", "srum_res_file", "run_res_file",
   "lnk_res_file", "mft_res_file", "windefender_res_file"}

\* ---------------------------------------------------------- configuration
\* A configuration is the set of keys whose value is truthy
\* (config.get(k) is truthy iff k \in config).
DefaultConfig(eng) ==
  CASE eng = "json" ->
         {"4624", "4625", "4672", "4648", "4688", "task_scheduler", "remote_rdp",
          "local_rdp", "bits", "service", "powershell", "powershell_script", "wmi",
          "app_exp", "amcache", "app_compat", "sam", "user_assist", "mru",
          "ff_history", "prefetch", "srum", "run", "lnk", "mft", "windefender"}
    [] eng = "base" ->
         {"4624", "4625", "4672", "4648", "4688", "task_scheduler", "remote_rdp",
          "local_rdp", "bits", "service", "powershell", "powershell_script", "wmi",
          "app_exp", "amcache", "app_compat", "sam", "user_assist", "mru",
          "ff_history", "prefetch", "srum", "run", "lnk"}
    [] eng = "csv" ->
         {"4624", "4625", "4672", "4648", "4688", "7045", "taskScheduler", "run",
          "ff_history", "srum", "prefetch", "lnk", "mft"}

\* every key some engine reads or sets, in every spelling
AllKeys ==
  {"4624", "4625", "4672", "4648", "4688", "7045", "task_scheduler", "taskScheduler",
   "remote_rdp", "local_rdp", "bits", "service", "powershell", "powershell_script",
   "wmi", "app_exp", "application_experience", "amcache", "app_compat", "sam",
   "user_assist", "mru", "ff_history", "ie_history", "prefetch", "srum", "run",
   "lnk", "mft", "windefender"}

\* a configuration file that enables two artifact types only
SparseConfig == {"4625", "srum"}

Configs(eng) == {DefaultConfig(eng), AllKeys, SparseConfig}

\* The configuration key each initialise_* function tests before it opens
\* the handle; "" when the function never opens that handle.
InitKey(eng, out, h) ==
  CASE h = "logon_res_file" -> "4624"
    [] h = "logon_failed_file" -> "4625"
    [] h = "logon_spe_file" -> "4672"
    [] h = "logon_exp_file" -> "4648"
    [] h = "new_proc_file" -> "4688"
    [] h = "task_scheduler_file" ->
         (CASE eng = "json" -> "taskScheduler"
            [] eng = "base" -> "task_scheduler"
            [] eng = "csv" -> IF out = "csv" THEN "taskScheduler" ELSE "task_scheduler")
    [] h = "remote_rdp_file" -> "remote_rdp"
    [] h = "local_rdp_file" -> "local_rdp"
    [] h = "bits_file" -> "bits"
    [] h = "service_file" -> IF eng = "csv" /\ out = "csv" THEN "7045" ELSE "service"
    [] h = "powershell_file" -> "powershell"
    [] h = "powershell_script_file" -> "powershell_script"
    [] h = "wmi_file" -> "wmi"
    [] h = "app_exp_file" -> "app_exp"
    [] h = "amcache_res_file" -> "amcache"
    [] h = "app_compat_res_file" -> "app_compat"
    [] h = "sam_res_file" -> "sam"
    [] h = "user_assist_file" -> "user_assist"
    [] h = "mru_res_file" -> "mru"
    [] h = "srum_res_file" -> "srum"
    [] h = "run_res_file" -> "run"
    [] h = "ff_history_res_file" -> "ff_history"
    [] h = "ie_history_res_file" -> IF eng = "json" THEN "ie_history" ELSE ""
    [] h = "prefetch_res_file" -> "prefetch"
    [] h = "lnk_res_file" -> "lnk"
    [] h = "mft_res_file" ->
         IF eng = "json" \/ (eng = "csv" /\ out = "csv") THEN "mft" ELSE ""
    [] h = "windefender_res_file" -> IF eng = "json" THEN "windefender" ELSE ""

\* State of the handles after the constructor: "open" for a stream that was
\* opened, "unset" for an attribute still holding "" (or never assigned).
initialise_results_files(eng, out, cfg) ==
  [h \in Handles |-> IF InitKey(eng, out, h) \in cfg THEN "open" ELSE "unset"]


\* ------------------------------------------------------------------ records
\* One timeline event.  The JSON engines see it as a dict, the line-oriented
\* engine as one delimited text line holding the same strings.
\*   valid       the line deserializes (json.loads succeeds / the text line
\*               has the columns the engine indexes)
\*   parser, source_name, filename   the discriminators, NONE when absent
\*   code, codeText   event_identifier (0 = absent) and whether it is text
\*   xml         "ok", "missing" or "malformed" markup payload
\*   attrs       names of the attributes / keys / patterns the payload holds
\*               ("" is a child element without a Name)
\*   text        regex literals occurring in the free text (message) of the
\*               line; for a filestat record "NTFS" in text is the marker in
\*               the message and "NTFS" in attrs is the marker in another
\*               attribute (file_system_type)
\*   entries     number of sub-entries of a run-key or MRU record
SEC == "Microsoft-Windows-Security-Auditing"
LSM == "Microsoft-Windows-TerminalServices-LocalSessionManager"
TSK == "Microsoft-Windows-TaskScheduler"

LogonAttrs == {"SubjectUserName", "TargetUserName", "IpAddress", "IpPort", "LogonType"}

ServiceAttrs == {"ServiceName", "ImagePath", "StartType", "AccountName"}
TaskAttrs == {"TaskName", "UserName", "Strings0", "Strings1", "Strings2", "Strings3"}

\* The "entries" text of an MRU record, as the list of its pieces:
\*   "Index:"   the delimiter that starts a sub-entry
\*   HdrShell   " <n> [MRU Value <n>]: Shell item path:"
\*   HdrValue   "<n> [MRU Value <x>]:"
\*   Unknown    "<UNKNOWN: ...>"
\*   " "        white space
\* and anything else is path text.
HdrShell == "HdrShell"
HdrValue == "HdrValue"
Unknown == "Unknown"
\* two sub-entries with paths C:\A and C:\B
BlobAB == << "Index:", HdrShell, " ", "C:\\A", " ", "Index:", HdrShell, " ", "C:\\B" >>
\* three sub-entries, the second one empty after cleanup
BlobMixed == << "Index:", HdrShell, " ", "C:\\A", " ", "Index:", " ", HdrValue, " ", Unknown, " ",
                "Index:", HdrShell, " ", "C:\\B" >>
\* two sub-entries, both empty after cleanup
BlobEmpty == << "Index:", HdrShell, " ", "Index:", HdrShell, " ", Unknown >>

Evt(src, file, c) ==
  [valid |-> TRUE, parser |-> "winevtx", source_name |-> src, filename |-> file,
   code |-> c, codeText |-> FALSE, xml |-> "ok", attrs |-> LogonAttrs,
   text |-> {}, entries |-> 0, blob |-> << >>]

Other(p, file, a, n) ==
  [valid |-> TRUE, parser |-> p, source_name |-> NONE, filename |-> file,
   code |-> 0, codeText |-> FALSE, xml |-> "missing", attrs |-> a,
   text |-> {}, entries |-> n, blob |-> << >>]

Records ==
  { Evt(SEC, "Security.evtx", 4624),
    [Evt(SEC, "Security.evtx", 4624) EXCEPT !.codeText = TRUE],
    [Evt(SEC, "Security.evtx", 4624) EXCEPT !.xml = "missing"],
    [Evt(SEC, "Security.evtx", 4624) EXCEPT !.attrs = {}],
    [Evt(SEC, "Security.evtx", 4624) EXCEPT !.attrs = {""}],
    [Evt(SEC, "Security.evtx", 4624) EXCEPT !.attrs = LogonAttrs \ {"IpPort"}],
    [Evt(SEC, "Security.evtx", 4624)
       EXCEPT !.attrs = (LogonAttrs \ {"LogonType"}) \cup {"LogonType10"}],
    Evt(SEC, "Security.evtx", 4625),
    Evt(SEC, "Security.evtx", 4672),
    Evt(SEC, "Security.evtx", 4634),
    Evt(SEC, "Security.evtx", 4648),
    [Evt(SEC, "Security.evtx", 4688) EXCEPT !.attrs = LogonAttrs \cup {"NewProcessName"}],
    [Evt(SEC, "Security.evtx", 4688)
       EXCEPT !.attrs = LogonAttrs \cup {"NewProcessName", "CommandLine"}, !.text = {"\n"}],
    [Evt("Microsoft-Windows-PowerShell", "Microsoft-Windows-PowerShell%4Operational.evtx", 4104)
       EXCEPT !.attrs = {"Path", "ScriptBlockText"}, !.text = {"\n"}],
    [Evt("Microsoft-Windows-WMI-Activity", "Microsoft-Windows-WMI-Activity%4Operational.evtx", 5860)
       EXCEPT !.attrs = {"User", "Query"}, !.text = {"\n"}],
    Evt(NONE, "Security.evtx", 4624),
    Evt("Microsoft-Windows-Kernel-General", "System.evtx", 12),
    Evt("Service Control Manager", "System.evtx", 7036),
    [Evt("Service Control Manager", "System.evtx", 7045) EXCEPT !.attrs = ServiceAttrs],
    [Evt("Service Control Manager", "System.evtx", 7045)
       EXCEPT !.attrs = ServiceAttrs, !.codeText = TRUE],
    [Evt(TSK, "Microsoft-Windows-TaskScheduler%4Operational.evtx", 106) EXCEPT !.attrs = TaskAttrs],
    [Evt(TSK, "Microsoft-Windows-TaskScheduler%4Operational.evtx", 200) EXCEPT !.attrs = TaskAttrs],
    [Evt(TSK, "Microsoft-Windows-TaskScheduler%4Operational.evtx", 200)
       EXCEPT !.attrs = {"TaskName", "Strings0", "Strings1"}],
    Evt(TSK, "Microsoft-Windows-TaskScheduler%4Operational.evtx", 999),
    Evt(LSM, "LocalSessionManager.evtx", 40),
    Evt(LSM, "LocalSessionManager.evtx", 1149),
    [Evt(LSM, "LocalSessionManager.evtx", 1149) EXCEPT !.codeText = TRUE],
    Evt(LSM, "LocalSessionManager.evtx", 23),
    Evt("Microsoft-Windows-Bits-Client", "Bits.evtx", 3),
    Evt("Microsoft-Windows-Windows Defender", "Defender.evtx", 1116),
    [Evt("Microsoft-Windows-Windows Defender", "Defender.evtx", 1117)
       EXCEPT !.attrs = {"Threat Name", "Path"}],
    [Evt("Microsoft-Windows-Application-Experience", "Program-Telemetry.evtx", 500)
       EXCEPT !.attrs = {"ExePath"}],
    Other("winreg/windows_run", "NTUSER.DAT", {"entries"}, 2),
    [Other("winreg/windows_run", "NTUSER.DAT", {"entries"}, 2) EXCEPT !.text = {"PowerShell"}],
    [Other("winreg/mrulistex_string", "NTUSER.DAT", {"entries"}, 0) EXCEPT !.blob = BlobAB],
    [Other("winreg/mrulistex_string", "NTUSER.DAT", {"entries"}, 0) EXCEPT !.blob = BlobMixed],
    [Other("winreg/mrulistex_string", "NTUSER.DAT", {"entries"}, 0) EXCEPT !.blob = BlobEmpty],
    Other("winreg/amcache", "Amcache.hve", {"full_path"}, 0),
    Other("sqlite/firefox_history", "places.sqlite", {"url", "Firefox History"}, 0),
    Other("esedb/srum", "SRUDB.dat", {"message"}, 0),
    Other("lnk", "a.lnk", {"description", "working_directory"}, 0),
    Other("lnk", "a.lnk", {"EnvLocation"}, 0),
    [Other("filestat", "a.txt", {}, 0) EXCEPT !.text = {"NTFS"}],
    Other("filestat", "a.txt", {"NTFS"}, 0),
    Other("filestat", "a.txt", {}, 0),
    Other("mft", "$MFT", {}, 0),
    Other("usnjrnl", "$UsnJrnl", {"message"}, 0),
    Other("pe", "a.exe", {}, 0),
    Other(NONE, "a.bin", {}, 0),
    [Other("pe", "a.exe", {}, 0) EXCEPT !.valid = FALSE] }

\* ------------------------------------------------------------------ effects
\* What processing one line does: the write() calls it makes, in order,
\* whether it then raises, and whether an extractor function was entered.
F(n, v) == [f |-> n, v |-> v]
\* every data row is built by a format string with a literal "|" between the
\* values (csv output); the literal is kept with the write
W(h, row) == [h |-> h, k |-> "body", row |-> row, sep |-> "|"]
NL(h) == [h |-> h, k |-> "nl", row |-> << >>, sep |-> ""]

Eff(ws) == [writes |-> ws, raises |-> FALSE, extracted |-> TRUE]
NoEff == [writes |-> << >>, raises |-> FALSE, extracted |-> FALSE]
Raise(ex) == [writes |-> << >>, raises |-> TRUE, extracted |-> ex]

\* value of a field that defaults to "-": tagged by the attribute it is read from
Val(rec, name) == IF name \in rec.attrs THEN name ELSE "-"
\* the LogonType attribute: "LogonType" stands for a one-digit value (2, 3,
\* 5, ...) and "LogonType10" for a two-digit one (10, 11); the dict engines
\* copy the text, the line-oriented engine's pattern takes one digit only
LogonTypeVal(rec) ==
  IF "LogonType" \in rec.attrs THEN "LogonType"
  ELSE IF "LogonType10" \in rec.attrs THEN "LogonType10" ELSE "-"
\* a text value that may carry an embedded newline: the payload of a record
\* whose text holds "\n" has two-line values
NLText == "line1\nline2"
Multi(rec) == "\n" \in rec.text
ValText(rec, name) ==
  IF name \notin rec.attrs THEN "-" ELSE IF Multi(rec) THEN NLText ELSE name
\* value.replace("\n", "")
Flatten(v) == IF v = NLText THEN "line1line2" ELSE v
\* json.dump writes a newline inside a string as the two characters \ and n
JsonDump(v) == IF v = NLText THEN "line1\\nline2" ELSE v
\* dict.get(name) without a default
ValOrNone(rec, name) == IF name \in rec.attrs THEN name ELSE "None"
\* event.get("event_identifier") as it is formatted into a row
CodeVal(rec) == IF rec.code = 0 THEN "None" ELSE ToString(rec.code)
\* str(event_code) in [...]
\* variant in which any present code passes the gate
CodeInAny(rec, set) == rec.code # 0
CodeIn(rec, set) == rec.code \in set
\* event_code == 4624 : an int compares equal to an int only
CodeIs(rec, c) == rec.code = c /\ ~rec.codeText

\* the csv row is used by the base engine for both output types
Fmt(eng, out, csvRow, jsonRow) == IF eng = "base" \/ out = "csv" THEN csvRow ELSE jsonRow

\* convert_epoch_to_date + xmltodict.parse(event.get("xml_string")), then one
\* formatted row and its line terminator
XmlRow(rec, h, row) == IF rec.xml # "ok" THEN Raise(TRUE) ELSE Eff(<< W(h, row), NL(h) >>)

JHead(code) == << F("caseName", "case"), F("workstation_name", "machine"),
                  F("timestamp", "dateTtime"), F("eventCode", code) >>


\* sequential composition of two statements, and "if cond: stmt"
Then(e1, e2) ==
  IF e1.raises THEN e1
  ELSE [writes |-> e1.writes \o e2.writes, raises |-> e2.raises,
        extracted |-> e1.extracted \/ e2.extracted]
When(cond, e) == IF cond THEN e ELSE NoEff

\* "if self.x_file:" : the attribute holds a file object, not ""
Truthy(fl, h) == fl[h] # "unset"
\* the JSON engine guards on the handle, the base engine does not guard
Gate(eng, fl, h) == eng = "base" \/ Truthy(fl, h)

\* ------------------------------------------- event-log extractors (dict)
LogonRow(eng, out, rec, code) ==
  Fmt(eng, out,
      << F("Date", "date"), F("Time", "time"), F("event_code", code),
         F("subject_user_name", Val(rec, "SubjectUserName")),
         F("target_user_name", Val(rec, "TargetUserName")),
         F("ip_address", Val(rec, "IpAddress")), F("ip_port", Val(rec, "IpPort")),
         F("logon_type", LogonTypeVal(rec)) >>,
      JHead(code) \o
      << F("subject_user_name", Val(rec, "SubjectUserName")),
         F("target_user_name", Val(rec, "TargetUserName")),
         F("ip_address", Val(rec, "IpAddress")), F("ip_port", Val(rec, "IpPort")),
         F("logon_type", LogonTypeVal(rec)) >>)

parse_logon_from_xml(eng, out, rec) ==
  XmlRow(rec, "logon_res_file", LogonRow(eng, out, rec, "4624"))
parse_failed_logon_from_xml(eng, out, rec) ==
  XmlRow(rec, "logon_failed_file", LogonRow(eng, out, rec, "4625"))
parse_spe_logon_from_xml(eng, out, rec) ==
  XmlRow(rec, "logon_spe_file", LogonRow(eng, out, rec, "4672"))
parse_logon_exp_from_xml(eng, out, rec) ==
  XmlRow(rec, "logon_exp_file", LogonRow(eng, out, rec, "4648"))

parse_new_proc_from_xml(eng, out, rec) ==
  XmlRow(rec, "new_proc_file",
    Fmt(eng, out,
      << F("Date", "date"), F("Time", "time"), F("event_code", "4688"),
         F("subject_user_name", Val(rec, "SubjectUserName")),
         F("target_user_name", Val(rec, "TargetUserName")),
         F("command_line", ValText(rec, "CommandLine")),
         F("new_process_name", Val(rec, "NewProcessName")),
         F("parent_process_name", Val(rec, "ParentProcessName")) >>,
      JHead("4688") \o
      << F("subject_user_name", Val(rec, "SubjectUserName")),
         F("target_user_name", Val(rec, "TargetUserName")),
         F("cmd_line", JsonDump(ValText(rec, "CommandLine"))),
         F("new_process_name", Val(rec, "NewProcessName")),
         F("parent_process_name", Val(rec, "ParentProcessName")) >>))

parse_security_evtx(eng, out, fl, rec) ==
  Then(When(CodeIs(rec, 4624) /\ Gate(eng, fl, "logon_res_file"), parse_logon_from_xml(eng, out, rec)),
  Then(When(CodeIs(rec, 4625) /\ Gate(eng, fl, "logon_failed_file"), parse_failed_logon_from_xml(eng, out, rec)),
  Then(When(CodeIs(rec, 4672) /\ Gate(eng, fl, "logon_spe_file"), parse_spe_logon_from_xml(eng, out, rec)),
  Then(When(CodeIs(rec, 4648) /\ Gate(eng, fl, "logon_exp_file"), parse_logon_exp_from_xml(eng, out, rec)),
       When(CodeIs(rec, 4688) /\ Gate(eng, fl, "new_proc_file"), parse_new_proc_from_xml(eng, out, rec))))))

\* the csv format string has six placeholders for seven arguments:
\* start_type is not formatted
parse_service_from_xml(eng, out, rec) ==
  XmlRow(rec, "service_file",
    Fmt(eng, out,
      << F("Date", "date"), F("Time", "time"), F("event_code", CodeVal(rec)),
         F("account_name", Val(rec, "AccountName")), F("img_path", Val(rec, "ImagePath")),
         F("service_name", Val(rec, "ServiceName")) >>,
      JHead(CodeVal(rec)) \o
      << F("account_name", Val(rec, "AccountName")), F("imgage_path", Val(rec, "ImagePath")),
         F("service_name", Val(rec, "ServiceName")), F("start_type", Val(rec, "StartType")) >>))

parse_system_evtx(eng, out, fl, rec) ==
  When(CodeIs(rec, 7045) /\ Gate(eng, fl, "service_file"), parse_service_from_xml(eng, out, rec))

parse_task_scheduler_from_xml(eng, out, rec) ==
  XmlRow(rec, "task_scheduler_file",
    Fmt(eng, out, << F("Date", "date"), F("Time", "time"), F("event_code", CodeVal(rec)) >>,
                  JHead(CodeVal(rec))) \o
    << F("name", Val(rec, "Name")), F("task_name", Val(rec, "TaskName")),
       F("instance_id", Val(rec, "InstanceId")), F("action_name", Val(rec, "ActionName")),
       F("result_code", Val(rec, "ResultCode")), F("user_name", Val(rec, "UserName")),
       F("user_context", Val(rec, "UserContext")) >>)

TaskCodes == {106, 107, 140, 141, 200, 201}

parse_task_scheduler(eng, out, fl, rec) ==
  When(Gate(eng, fl, "task_scheduler_file") /\ CodeIn(rec, TaskCodes),
       parse_task_scheduler_from_xml(eng, out, rec))

parse_rdp_remote_evtx_from_xml(eng, out, rec) ==
  XmlRow(rec, "remote_rdp_file",
    Fmt(eng, out,
      << F("Date", "date"), F("Time", "time"), F("event_code", CodeVal(rec)),
         F("InitConnexion", "InitConnexion"),
         F("user_name", Val(rec, "Param1")), F("ip_addr", Val(rec, "Param3")) >>,
      << F("case_name", "case"), F("workstation_name", "machine"),
         F("timestamp", "dateTtime"), F("event_code", CodeVal(rec)),
         F("user_name", Val(rec, "Param1")), F("ip_address", Val(rec, "Param3")) >>))

Reason(c) ==
  CASE c = 21 -> "AuthSuccess"
    [] c = 24 -> "UserDisconnected"
    [] c = 25 -> "UserReconnected"
    [] c = 39 -> "UserHasBeenDisconnected"
    [] c = 40 -> "UserHasBeenDisconnected"
    [] OTHER -> "-"

parse_rdp_local_evtx_from_xml(eng, out, rec) ==
  XmlRow(rec, "local_rdp_file",
    Fmt(eng, out, << F("Date", "date"), F("Time", "time"), F("event_code", CodeVal(rec)) >>,
                  << F("case_name", "case"), F("workstation_name", "machine"),
                     F("timestamp", "dateTtime"), F("event_code", CodeVal(rec)) >>) \o
    << F("user_name", Val(rec, "User")), F("ip_addr", Val(rec, "Adress")),
       F("session_id", Val(rec, "SessionID")), F("source", Val(rec, "Source")),
       F("target_session", Val(rec, "")), F("reason_n", Val(rec, "Reason")),
       F("reason", Reason(rec.code)) >>)

RdpRemoteCodes == {1149}
RdpLocalCodes == {21, 24, 25, 39, 40}

parse_rdp(eng, out, fl, rec) ==
  Then(When(Gate(eng, fl, "remote_rdp_file") /\ CodeIn(rec, RdpRemoteCodes),
            parse_rdp_remote_evtx_from_xml(eng, out, rec)),
       When(Gate(eng, fl, "local_rdp_file") /\ CodeIn(rec, RdpLocalCodes),
            parse_rdp_local_evtx_from_xml(eng, out, rec)))


\* the JSON engine's csv row formats the builtin "id" instead of the extracted
\* identifier (the base engine names its local variable id); the csv row ends
\* with a separator; the json dict stores bytes_total under "user"
parse_bits_evtx_from_xml(eng, out, rec) ==
  XmlRow(rec, "bits_file",
    Fmt(eng, out,
      << F("Date", "date"), F("Time", "time"), F("event_code", CodeVal(rec)),
         F("id", IF eng = "base" THEN Val(rec, "Id") ELSE "<built-in function id>"), F("job_id", Val(rec, "jobId")),
         F("job_title", Val(rec, "jobTitle")), F("job_owner", Val(rec, "jobOwner")),
         F("user", Val(rec, "User")), F("bytes_total", Val(rec, "bytesTotal")),
         F("bytes_transferred", Val(rec, "bytesTransferred")),
         F("file_count", Val(rec, "fileCount")), F("file_length", Val(rec, "fileLength")),
         F("file_time", Val(rec, "fileTime")), F("name", Val(rec, "name")),
         F("url", Val(rec, "url")), F("process_path", Val(rec, "processPath")),
         F("", "") >>,
      << F("caseName", "case"), F("workstation_name", "machine"),
         F("timestamp", "dateTtime"), F("eventCode", CodeVal(rec)),
         F("identifiant", Val(rec, "Id")), F("job_id", Val(rec, "jobId")),
         F("job_title", Val(rec, "jobTitle")), F("job_owner", Val(rec, "jobOwner")),
         F("user", Val(rec, "bytesTotal")),
         F("bytes_transferred", Val(rec, "bytesTransferred")),
         F("file_count", Val(rec, "fileCount")), F("file_length", Val(rec, "fileLength")),
         F("file_time", Val(rec, "fileTime")), F("name", Val(rec, "name")),
         F("url", Val(rec, "url")), F("process_path", Val(rec, "processPath")) >>))

BitsCodes == {3, 4, 59, 60, 61}

parse_bits(eng, out, fl, rec) ==
  When(Gate(eng, fl, "bits_file") /\ CodeIn(rec, BitsCodes), parse_bits_evtx_from_xml(eng, out, rec))

WmiRow(eng, out, rec, queryKey) ==
  Fmt(eng, out, << F("Date", "date"), F("Time", "time") >>,
                << F("case_name", "case"), F("workstation_name", "machine"),
                   F("timestamp", "dateTtime") >>) \o
  << F("event_code", CodeVal(rec)), F("operation_name", "operation"),
     F("user", Val(rec, "User")), F("namespace", Val(rec, "NamespaceName")),
     F("consumer", Val(rec, "CONSUMER")),
     F("cause", Flatten(ValText(rec, "PossibleCause"))),
     F("query", Flatten(ValText(rec, queryKey))) >>

parse_wmi_evtx_from_xml(eng, out, rec) == XmlRow(rec, "wmi_file", WmiRow(eng, out, rec, "Query"))
parse_wmi_failure_from_xml(eng, out, rec) == XmlRow(rec, "wmi_file", WmiRow(eng, out, rec, "Operation"))

parse_wmi(eng, out, fl, rec) ==
  When(Gate(eng, fl, "wmi_file"),
       Then(When(CodeIn(rec, {5860, 5861}), parse_wmi_evtx_from_xml(eng, out, rec)),
            When(CodeIn(rec, {5858}), parse_wmi_failure_from_xml(eng, out, rec))))

parse_powershell_script_from_xml(eng, out, rec) ==
  XmlRow(rec, "powershell_script_file",
    Fmt(eng, out, << F("Date", "date"), F("Time", "time"), F("event_code", CodeVal(rec)) >>,
                  JHead(CodeVal(rec))) \o
    << F("path_to_script", Val(rec, "Path")),
       F("script_block_text",
         Fmt(eng, out, ValText(rec, "ScriptBlockText"),
                       JsonDump(ValText(rec, "ScriptBlockText")))) >>)

parse_powershell_cmd_from_xml(eng, out, rec) ==
  XmlRow(rec, "powershell_file",
    Fmt(eng, out, << F("Date", "date"), F("Time", "time"), F("event_code", CodeVal(rec)) >>,
                  JHead(CodeVal(rec))) \o
    << F("cmdu", Val(rec, "HostApplication")) >>)

parse_powershell(eng, out, fl, rec) ==
  Then(When(Gate(eng, fl, "powershell_script_file") /\ CodeIn(rec, {4104, 4105, 4106}),
            parse_powershell_script_from_xml(eng, out, rec)),
       When(Gate(eng, fl, "powershell_file") /\ CodeIn(rec, {400, 600}),
            parse_powershell_cmd_from_xml(eng, out, rec)))

parse_app_experience_from_xml(eng, out, rec) ==
  XmlRow(rec, "app_exp_file",
    Fmt(eng, out, << F("Date", "date"), F("Time", "time"), F("event_code", CodeVal(rec)) >>,
                  JHead(CodeVal(rec))) \o
    << F("fix_name", ValOrNone(rec, "FixName")), F("exe_path", ValOrNone(rec, "ExePath")) >>)

parse_app_experience(eng, out, fl, rec) ==
  When(Gate(eng, fl, "app_exp_file") /\ CodeIn(rec, {500, 505, 17}),
       parse_app_experience_from_xml(eng, out, rec))

\* JSON engine only.  In json output the dict is dumped to logon_res_file and
\* the line terminator goes to windefender_res_file.
WindefRow(out, rec, code) ==
  IF out = "csv"
  THEN << F("Date", "date"), F("Time", "time"), F("event_code", code),
          F("threat_name", Val(rec, "Threat Name")), F("severity", Val(rec, "Severity Name")),
          F("detection_user", Val(rec, "Detection User")),
          F("process_name", Val(rec, "Process Name")), F("action", Val(rec, "Action Name")) >>
  ELSE JHead(code) \o
       << F("threat_name", Val(rec, "Threat Name")), F("severity", Val(rec, "Severity Name")),
          F("detection_user", Val(rec, "Detection User")),
          F("process_name", Val(rec, "Process Name")), F("path", Val(rec, "Path")),
          F("action", Val(rec, "Action Name")) >>

WindefWrite(out, rec, code) ==
  IF rec.xml # "ok" THEN Raise(TRUE)
  ELSE Eff(<< W(IF out = "csv" THEN "windefender_res_file" ELSE "logon_res_file",
                WindefRow(out, rec, code)),
              NL("windefender_res_file") >>)

parse_windef_detection_from_xml(out, rec) == WindefWrite(out, rec, "1116 - Detection")
parse_windef_action_from_xml(out, rec) == WindefWrite(out, rec, "1117 - Action")

parse_windows_defender(out, cfg, fl, rec) ==
  IF "windefender" \notin cfg THEN NoEff
  ELSE Then(When(CodeIn(rec, {1116}) /\ Truthy(fl, "windefender_res_file"),
                 parse_windef_detection_from_xml(out, rec)),
            When(CodeIn(rec, {1117, 1118, 1119}) /\ Truthy(fl, "windefender_res_file"),
                 parse_windef_action_from_xml(out, rec)))

\* identify_artefact_by_source_name raises when source_name is absent
\* (re.search on None); otherwise the subtype decides the extractor.
identify_artefact_by_source_name(eng, rec) ==
  ScanTable(d_regex_artefact_by_source_name(eng), Lits(rec.source_name), 1)

identify_artefact_by_filename(rec) ==
  ScanTable(d_regex_aterfact_by_file_name, Lits(rec.filename), 1)

parse_logs(eng, out, cfg, fl, rec) ==
  IF rec.source_name = NONE THEN Raise(FALSE)
  ELSE LET log_type == identify_artefact_by_source_name(eng, rec) IN
    Then(When(log_type = "security", parse_security_evtx(eng, out, fl, rec)),
    Then(When(log_type = "taskScheduler", parse_task_scheduler(eng, out, fl, rec)),
    Then(When(log_type = "bits", parse_bits(eng, out, fl, rec)),
    Then(When(log_type = "system", parse_system_evtx(eng, out, fl, rec)),
    Then(When(log_type = "rdp_local", parse_rdp(eng, out, fl, rec)),
    Then(When(log_type = "powershell", parse_powershell(eng, out, fl, rec)),
    Then(When(log_type = "wmi", parse_wmi(eng, out, fl, rec)),
    Then(When(log_type = "application_experience", parse_app_experience(eng, out, fl, rec)),
         When(log_type = "windefender" /\ eng = "json",
              parse_windows_defender(out, cfg, fl, rec))))))))))


\* --------------------------------- hive, database, file extractors (dict)
\* variant in which the row is written twice
Row2Twice(h, row) == Eff(<< W(h, row), NL(h), W(h, row), NL(h) >>)
Row2(h, row) == Eff(<< W(h, row), NL(h) >>)
JHeadNoCode == << F("caseName", "case"), F("workstation_name", "machine"),
                  F("timestamp", "dateTtime") >>
DateTime == << F("Date", "date"), F("Time", "time") >>

parse_amcache(eng, out, rec) ==
  IF "full_path" \notin rec.attrs THEN Eff(<< >>)
  ELSE Row2("amcache_res_file",
         CASE eng = "base" -> DateTime \o << F("name", "full_path"),
                                 F("identifier", Val(rec, "program_identifier")) >>
           [] eng # "base" /\ out = "csv" ->
                DateTime \o << F("name", "full_path"),
                               F("identifier", Val(rec, "program_identifier")),
                               F("sha256_hash", Val(rec, "sha256_hash")) >>
           [] OTHER -> JHeadNoCode \o << F("name", "full_path"),
                               F("identifier", Val(rec, "program_identifier")),
                               F("hash", Val(rec, "sha256_hash")) >>)

parse_app_compat_cache(eng, out, rec) ==
  IF "path" \notin rec.attrs THEN Eff(<< >>)
  ELSE Row2("app_compat_res_file",
         CASE eng = "base" -> DateTime \o << F("name", "path"),
                                 F("sha256_hash", Val(rec, "sha256_hash")),
                                 F("full_path", "path") >>
           [] eng # "base" /\ out = "csv" ->
                DateTime \o << F("name", "path"), F("full_path", "path"),
                               F("sha256_hash", Val(rec, "sha256_hash")) >>
           [] OTHER -> JHeadNoCode \o << F("name", "path"), F("identifier", "path"),
                               F("hash", Val(rec, "sha256_hash")) >>)

parse_sam(eng, out, rec) ==
  Row2("sam_res_file",
       Fmt(eng, out, DateTime, JHeadNoCode) \o
       << F("user_name", Val(rec, "username")), F("login_count", Val(rec, "login_count")) >>)

parse_user_assist(eng, out, rec) ==
  Row2("user_assist_file",
       Fmt(eng, out, DateTime, JHeadNoCode) \o
       << F("value_name", Val(rec, "value_name")),
          F("application_focus_count", Val(rec, "application_focus_count")),
          F("application_focus_duration", Val(rec, "application_focus_duration")) >>)

\* variant that writes the rows of a list last element first
RECURSIVE RowsOfReversed(_, _)
RowsOfReversed(h, rows) ==
  IF rows = << >> THEN << >>
  ELSE RowsOfReversed(h, Tail(rows)) \o << W(h, Head(rows)), NL(h) >>
\* one body and one terminator per element of a list of rows
RECURSIVE RowsOf(_, _)
RowsOf(h, rows) ==
  IF rows = << >> THEN << >>
  ELSE << W(h, Head(rows)), NL(h) >> \o RowsOf(h, Tail(rows))

\* entries.split("Index:") : the pieces between the delimiters, the one
\* before the first delimiter included
RECURSIVE SplitIndex(_, _)
SplitIndex(blob, piece) ==
  IF blob = << >> THEN << piece >>
  ELSE IF Head(blob) = "Index:" THEN << piece >> \o SplitIndex(Tail(blob), << >>)
  ELSE SplitIndex(Tail(blob), Append(piece, Head(blob)))

\* str.strip() : white space removed at both ends
RECURSIVE Strip(_)
Strip(piece) ==
  IF piece = << >> THEN piece
  ELSE IF Head(piece) = " " THEN Strip(Tail(piece))
  ELSE IF piece[Len(piece)] = " " THEN Strip(SubSeq(piece, 1, Len(piece) - 1))
  ELSE piece

\* variant that strips the piece without removing the headers
CleanedRaw(piece) == Strip(piece)
\* cleaned = re.sub(header, '', entrie).strip()
Cleaned(piece) == Strip(SelectSeq(piece, LAMBDA t : t \notin {HdrShell, HdrValue, Unknown}))

\* the text of a cleaned piece as it is formatted into the row (the pieces of
\* the model keep at most one path after cleanup)
Text(piece) == IF Len(piece) = 1 THEN piece[1] ELSE "<text>"

\* one row per piece that is non-empty after cleanup; an absent or empty
\* "entries" value writes nothing
parse_mru(eng, out, rec) ==
  IF rec.parser = "winreg/bagmru/shell_items"
  THEN Row2("mru_res_file",
            Fmt(eng, out, DateTime, JHeadNoCode) \o
            << F("name", Val(rec, "name")), F("shell_item_path", Val(rec, "shell_item_path")) >>)
  ELSE IF "entries" \in rec.attrs /\ rec.blob # << >>
  THEN LET l_entries == SplitIndex(rec.blob, << >>)
           kept == SelectSeq([i \in 1..Len(l_entries) |-> Cleaned(l_entries[i])],
                             LAMBDA c : c # << >>)
       IN Eff(RowsOf("mru_res_file",
            [i \in 1..Len(kept) |->
               Fmt(eng, out, DateTime \o << F("name", "-"), F("cleaned", Text(kept[i])) >>,
                             JHeadNoCode \o << F("mru_entrie", Text(kept[i])) >>)]))
  ELSE Eff(<< >>)

\* event.get("entries", "-") : an absent key iterates over the string "-"
parse_run(eng, out, rec) ==
  LET n == IF "entries" \in rec.attrs THEN rec.entries ELSE 1 IN
  Eff(RowsOf("run_res_file",
        [i \in 1..n |->
           Fmt(eng, out, DateTime, JHeadNoCode) \o
           << F(IF eng = "base" \/ out = "csv" THEN "entrie" ELSE "run_entrie",
                IF "entries" \in rec.attrs THEN ToString(i) ELSE "-") >>]))

identify_artefact_by_parser_name(eng, rec) ==
  ScanTable(d_regex_artefact_by_parser_name(eng), Lits(rec.parser), 1)

parse_hives(eng, out, fl, rec) ==
  LET hive_type == identify_artefact_by_parser_name(eng, rec) IN
  Then(When(hive_type = "amcache" /\ Gate(eng, fl, "amcache_res_file"), parse_amcache(eng, out, rec)),
  Then(When(hive_type = "appCompat" /\ Gate(eng, fl, "app_compat_res_file"), parse_app_compat_cache(eng, out, rec)),
  Then(When(hive_type = "sam" /\ Gate(eng, fl, "sam_res_file"), parse_sam(eng, out, rec)),
  Then(When(hive_type = "userassist" /\ Gate(eng, fl, "user_assist_file"), parse_user_assist(eng, out, rec)),
  Then(When(hive_type = "mru" /\ Gate(eng, fl, "mru_res_file"), parse_mru(eng, out, rec)),
       When(hive_type = "run" /\ Gate(eng, fl, "run_res_file"), parse_run(eng, out, rec)))))))

parse_srum(eng, out, rec) ==
  Row2("srum_res_file",
       Fmt(eng, out, DateTime, JHeadNoCode) \o << F("description", Val(rec, "message")) >>)

parse_ff_history(eng, out, rec) ==
  Row2("ff_history_res_file",
       Fmt(eng, out, DateTime, JHeadNoCode) \o
       << F("url", Val(rec, "url")), F("visit_count", Val(rec, "visit_count")),
          F("visit_type", Val(rec, "visit_type")), F("is_typed", Val(rec, "typed")),
          F("from_visit", Val(rec, "from_visit")) >>)

parse_db(eng, out, fl, rec) ==
  LET db_type == identify_artefact_by_parser_name(eng, rec) IN
  Then(When(db_type = "ff_history" /\ Gate(eng, fl, "ff_history_res_file"), parse_ff_history(eng, out, rec)),
       When(db_type = "srum" /\ Gate(eng, fl, "srum_res_file"), parse_srum(eng, out, rec)))

parse_prefetch(eng, out, rec) ==
  Row2("prefetch_res_file",
       Fmt(eng, out, DateTime, JHeadNoCode) \o
       << F("executable", Val(rec, "executable")), F("path_hints", Val(rec, "path_hints")),
          F("run_count", Val(rec, "run_count")) >>)

parse_lnk(eng, out, rec) ==
  IF "description" \in rec.attrs /\ "working_directory" \in rec.attrs
  THEN Row2("lnk_res_file",
            Fmt(eng, out, DateTime, JHeadNoCode) \o
            << F("description", "description"), F("working_directory", "working_directory") >>)
  ELSE Eff(<< >>)

parse_win_file(eng, out, fl, rec) ==
  LET file_type == identify_artefact_by_parser_name(eng, rec) IN
  Then(When(file_type = "prefetch" /\ Gate(eng, fl, "prefetch_res_file"), parse_prefetch(eng, out, rec)),
       When(file_type = "lnk" /\ Gate(eng, fl, "lnk_res_file"), parse_lnk(eng, out, rec)))

\* re.search(file_name_re, event.get("message")) raises on an absent message
parse_usnjrl(out, rec) ==
  IF "message" \notin rec.attrs THEN Raise(TRUE)
  ELSE Row2("mft_res_file",
         IF out = "csv"
         THEN DateTime \o << F("source", "USNJRNL"), F("file_type", "N/A"),
                 F("update_reason", ValOrNone(rec, "Update reason")),
                 F("file_name", ValOrNone(rec, "file_name")) >>
         ELSE << F("caseName", "case"), F("timestamp", "dateTtime"),
                 F("workstation_name", "machine"), F("message", "message"),
                 F("file_name", ValOrNone(rec, "file_name")) >>)

MftRow(out, rec, tag) ==
  IF out = "csv"
  THEN DateTime \o << F("source", tag), F("file_type", ValOrNone(rec, "file_entry_type")),
          F("action", ValOrNone(rec, "timestamp_desc")), F("file_name_path", rec.filename) >>
  ELSE << F("caseName", "case"), F("timestamp", "dateTtime"), F("workstation_name", "machine"),
          F("action", ValOrNone(rec, "timestamp_desc")),
          F("file_type", ValOrNone(rec, "file_entry_type")), F("path", rec.filename) >>

parse_filestat(out, rec) == Row2("mft_res_file", MftRow(out, rec, "FILESTAT"))
parse_file_mft(out, rec) == Row2("mft_res_file", MftRow(out, rec, "MFT"))

\* re.search(r'NTFS', json.dumps(line)) looks at the whole record
parse_mft(out, cfg, rec) ==
  IF "mft" \notin cfg THEN NoEff
  ELSE CASE rec.parser = "usnjrnl" -> parse_usnjrl(out, rec)
         [] rec.parser = "mft" -> parse_file_mft(out, rec)
         [] rec.parser = "filestat" /\ "NTFS" \in rec.attrs \cup rec.text -> parse_filestat(out, rec)
         [] OTHER -> NoEff

\* ------------------------------------------ dispatch of the dict engines
identify_type_artefact_by_parser(eng, rec) ==
  ScanTable(d_regex_type_artefact(eng), Lits(rec.parser), 1)

assign_parser(eng, out, cfg, fl, rec, type_artefact) ==
  Then(When(type_artefact = "evtx", parse_logs(eng, out, cfg, fl, rec)),
  Then(When(type_artefact = "hive", parse_hives(eng, out, fl, rec)),
  Then(When(type_artefact = "db", parse_db(eng, out, fl, rec)),
  Then(When(type_artefact = "winFile", parse_win_file(eng, out, fl, rec)),
       When(type_artefact = "mft" /\ eng = "json", parse_mft(out, cfg, rec))))))

\* body of parse_timeline's loop: json.loads raises on an undeserializable
\* line, identify_type_artefact_by_parser raises on an absent "parser"
LineDict(eng, out, cfg, fl, rec) ==
  IF ~rec.valid THEN Raise(FALSE)
  ELSE IF rec.parser = NONE THEN Raise(FALSE)
  ELSE LET type_artefact == identify_type_artefact_by_parser(eng, rec) IN
       IF type_artefact = "None" THEN NoEff
       ELSE assign_parser(eng, out, cfg, fl, rec, type_artefact)


\* --------------------------------------------- line-oriented engine (text)
\* the regex literals found anywhere in the text line
LineLits(rec) == Lits(rec.parser) \cup Lits(rec.source_name) \cup Lits(rec.filename) \cup rec.text

\* re.search(pattern, event).group(..) raises when the pattern does not match:
\* every pattern in need must match the line
Need(rec, need, e) == IF need \subseteq rec.attrs THEN e ELSE Raise(TRUE)

CHead(code) == << F("caseName", "case"), F("workstation", "computer"),
                  F("timestamp", "dateTtime"), F("eventCode", code) >>

LogonRowRegex(out, rec, code) ==
  IF out = "csv"
  THEN DateTime \o << F("target_user_name", "TargetUserName"), F("ip_address", "IpAddress"),
                      F("ip_port", "IpPort"), F("logon_type", "LogonType") >>
  ELSE CHead(code) \o << F("target_user_name", "TargetUserName"), F("ip_address", "IpAddress"),
                         F("ip_port", "IpPort"), F("logon_type", "LogonType") >>

parse_logon_with_regex(out, rec) ==
  Need(rec, LogonAttrs, Row2("logon_res_file", LogonRowRegex(out, rec, "4624")))
parse_failed_logon_with_regex(out, rec) ==
  Need(rec, LogonAttrs, Row2("logon_failed_file", LogonRowRegex(out, rec, "4625")))
parse_spe_logon_with_regex(out, rec) ==
  Need(rec, {"SubjectUserName"},
       Row2("logon_spe_file",
            IF out = "csv"
            THEN DateTime \o << F("event_code", "4672"), F("account_name", "SubjectUserName") >>
            ELSE CHead("4672") \o << F("account_name", "SubjectUserName") >>))
parse_logon_exp_with_regex(out, rec) ==
  Need(rec, {"SubjectUserName", "TargetUserName"},
       Row2("logon_exp_file",
            IF out = "csv"
            THEN DateTime \o << F("target_user_name", "TargetUserName") >>
            ELSE CHead("4648") \o << F("target_user_name", "TargetUserName") >>))
parse_new_proc_with_regex(out, rec) ==
  Need(rec, {"SubjectUserName", "NewProcessName"},
       Row2("new_proc_file",
            IF out = "csv"
            THEN DateTime \o << F("event_code", "4688"), F("new_process_name", "NewProcessName"),
                                F("account_name", "SubjectUserName") >>
            ELSE CHead("4688") \o << F("new_proccess_name", "NewProcessName"),
                                     F("account_name", "SubjectUserName") >>))

\* event_code = re.search(r'(\[(\d{1,6}) \/)', event).group(2) raises when the
\* line carries no event code
parse_security_evtx_csv(out, cfg, rec) ==
  IF rec.code = 0 THEN Raise(FALSE)
  ELSE IF CodeVal(rec) \notin cfg THEN NoEff
  ELSE CASE rec.code = 4624 -> parse_logon_with_regex(out, rec)
         [] rec.code = 4625 -> parse_failed_logon_with_regex(out, rec)
         [] rec.code = 4672 -> parse_spe_logon_with_regex(out, rec)
         [] rec.code = 4648 -> parse_logon_exp_with_regex(out, rec)
         [] rec.code = 4688 -> parse_new_proc_with_regex(out, rec)
         [] OTHER -> NoEff

parse_service_with_regex(out, rec) ==
  Need(rec, {"ServiceName", "ImagePath", "StartType", "AccountName"},
       Row2("service_file",
            IF out = "csv"
            THEN DateTime \o << F("event_code", CodeVal(rec)), F("account_name", "AccountName"),
                                F("service_name", "ServiceName"), F("img_path", "ImagePath"),
                                F("start_type", "StartType") >>
            ELSE CHead(CodeVal(rec)) \o
                 << F("service_name", "ServiceName"), F("service_file_name", "ImagePath"),
                    F("service_account", "AccountName"), F("start_type", "StartType") >>))

parse_service_evtx(out, cfg, rec) ==
  IF rec.code = 0 THEN Raise(FALSE)
  ELSE IF CodeVal(rec) \notin cfg THEN NoEff
  ELSE When(rec.code = 7045, parse_service_with_regex(out, rec))

TaskAction(c) ==
  CASE c = 106 -> "JOB_REGISTERED"
    [] c = 107 -> "TIME_TRIGGER"
    [] c = 140 -> "TASK_UPDATED"
    [] c = 141 -> "TASK_DELETED"
    [] OTHER -> "-"

\* str_line[1] / str_line[0] of the "Strings: [...]" list
parse_task_scheduler_action_with_regex(out, rec) ==
  Need(rec, {"Strings0", "Strings1"},
       Row2("task_scheduler_file",
            IF out = "csv"
            THEN DateTime \o << F("event_code", CodeVal(rec)), F("action", TaskAction(rec.code)),
                                F("user_name", "Strings1"), F("task_name", "Strings0") >>
            ELSE CHead(CodeVal(rec)) \o
                 << F("user_name", "Strings1"), F("task_name", "Strings0"),
                    F("action", TaskAction(rec.code)) >>))

parse_task_scheduler_launch_and_completion_with_regex(out, rec) ==
  Need(rec, {"Strings0", "Strings1", "Strings2", "Strings3"},
       LET action == IF rec.code = 200 THEN "ACTION_START" ELSE "ACTION_SUCCESS"
           bin == IF rec.code = 200 THEN "Strings1" ELSE "Strings2" IN
       Row2("task_scheduler_file",
            IF out = "csv"
            THEN DateTime \o << F("event_code", CodeVal(rec)), F("action", action),
                                F("task_name", "Strings0"), F("binary_path", bin),
                                F("reason", "Strings3") >>
            ELSE CHead(CodeVal(rec)) \o
                 << F("action", action), F("task_name", "Strings0"),
                    F("binary_path", bin), F("reason", "Strings3") >>))

parse_task_scheduler_csv(out, cfg, rec) ==
  IF rec.code = 0 THEN Raise(FALSE)
  ELSE IF "taskScheduler" \notin cfg THEN NoEff
  ELSE CASE rec.code \in {106, 107, 140, 141} -> parse_task_scheduler_action_with_regex(out, rec)
         [] rec.code \in {200, 201} -> parse_task_scheduler_launch_and_completion_with_regex(out, rec)
         [] OTHER -> NoEff

\* the *_from_xml extractors of this engine call event.get on the text line
parse_bits_csv(cfg, rec) ==
  IF "bits" \notin cfg THEN NoEff
  ELSE IF rec.code = 0 THEN Raise(FALSE)
  ELSE When(CodeIn(rec, BitsCodes), Raise(TRUE))

parse_rdp_csv(cfg, rec) ==
  IF rec.code = 0 THEN Raise(FALSE)
  ELSE Then(When("remote_rdp" \in cfg /\ CodeIn(rec, RdpRemoteCodes), Raise(TRUE)),
            When("local_rdp" \in cfg /\ CodeIn(rec, RdpLocalCodes), Raise(TRUE)))

identify_artefact_by_source(rec) == ScanTable(d_regex_artefact_by_source, LineLits(rec), 1)

\* parse_powershell, parse_wmi and parse_app_experience return at once
parse_evtx(out, cfg, rec) ==
  LET artefact_subtype == identify_artefact_by_source(rec) IN
  CASE artefact_subtype = "security" -> parse_security_evtx_csv(out, cfg, rec)
    [] artefact_subtype = "service" -> parse_service_evtx(out, cfg, rec)
    [] artefact_subtype = "taskScheduler" -> parse_task_scheduler_csv(out, cfg, rec)
    [] artefact_subtype = "bits" -> parse_bits_csv(cfg, rec)
    [] artefact_subtype = "rdp_local" -> parse_rdp_csv(cfg, rec)
    [] OTHER -> NoEff

\* rows are written for the non-empty entries of "Entries: [...]"
parse_run_csv(out, rec) ==
  IF rec.parser = "winreg/windows_run" /\ "entries" \in rec.attrs
  THEN Eff(RowsOf("run_res_file",
         [i \in 1..rec.entries |->
            IF out = "csv" THEN DateTime \o << F("entrie", ToString(i)) >>
            ELSE << F("caseName", "case"), F("workstation", "machine"),
                    F("timestamp", "dateTtime"), F("run_entrie", ToString(i)) >>]))
  ELSE Eff(<< >>)

\* every branch but "run" returns before its extractor
\* variant without the early returns: the amcache and mru branches reach the
\* extractors
parse_hives_through(out, rec) ==
  LET artefact_subtype == identify_artefact_by_source(rec) IN
  CASE artefact_subtype = "amcache" -> parse_amcache("json", out, rec)
    [] artefact_subtype = "mru" -> parse_mru("json", out, rec)
    [] artefact_subtype = "run" -> parse_run_csv(out, rec)
    [] OTHER -> NoEff
\* the amcache, appCompat, sam, userassist and mru branches return before
\* they call their extractor
parse_hives_csv(out, rec) ==
  LET artefact_subtype == identify_artefact_by_source(rec) IN
  When(artefact_subtype = "run", parse_run_csv(out, rec))

parse_srum_csv(out, rec) ==
  IF rec.parser = "esedb/srum"
  THEN Row2("srum_res_file",
            IF out = "csv" THEN DateTime \o << F("description", "col4") >>
            ELSE << F("caseName", "case"), F("workstation", "machine"),
                    F("timestamp", "dateTtime"), F("description", "col4") >>)
  ELSE Eff(<< >>)

parse_ff_history_csv(out, rec) ==
  IF rec.parser = "sqlite/firefox_history" /\ "Firefox History" \in rec.attrs
     /\ "url" \in rec.attrs
  THEN Row2("ff_history_res_file",
            IF out = "csv"
            THEN DateTime \o << F("type_action", "col1"),
                    F("run_count", ValOrNone(rec, "count")), F("uri", "url"),
                    F("visited_from", ValOrNone(rec, "visited from")) >>
            ELSE << F("caseName", "case"), F("workstation", "machine"), F("timestamp", "dateTtime"),
                    F("type_action", "col1"), F("uri", "url"),
                    F("run_count", ValOrNone(rec, "count")),
                    F("visited_from", ValOrNone(rec, "visited from")) >>)
  ELSE Eff(<< >>)

parse_db_csv(out, rec) ==
  LET artefact_subtype == identify_artefact_by_source(rec) IN
  CASE artefact_subtype = "ff_history" -> parse_ff_history_csv(out, rec)
    [] artefact_subtype = "srum" -> parse_srum_csv(out, rec)
    [] OTHER -> NoEff

\* columns of the text line are tagged col1, col2, col4, col6
parse_usnjrl_csv(out) ==
  Row2("mft_res_file",
       IF out = "csv"
       THEN DateTime \o << F("type", "col2"), F("action", "col1"), F("filePath", "col4") >>
       ELSE << F("caseName", "case"), F("timestamp", "dateTtime"), F("workstation_name", "machine"),
               F("action_type", "col2"), F("file_type", "col1"), F("path", "col4") >>)

parse_filemft(out) ==
  Row2("mft_res_file",
       IF out = "csv"
       THEN DateTime \o << F("type", "col2"), F("action", "col1"), F("filePath", "cleaned col4") >>
       ELSE << F("caseName", "case"), F("timestamp", "dateTtime"), F("workstation_name", "machine"),
               F("action_type", "col1"), F("file_type", "col2"), F("path", "cleaned col4") >>)

parse_filestat_csv(out) ==
  Row2("mft_res_file",
       IF out = "csv"
       THEN DateTime \o << F("type", "col2"), F("action", "col1"), F("filePath", "col6") >>
       ELSE << F("caseName", "case"), F("timestamp", "dateTtime"), F("workstation_name", "machine"),
               F("action_type", "col1"), F("file_type", "col2"), F("path", "col6") >>)

\* re.search("NTFS:", l_col[4]) looks at the message column
parse_mft_csv(out, cfg, rec) ==
  IF "mft" \notin cfg THEN NoEff
  ELSE CASE rec.parser = "usnjrnl" -> parse_usnjrl_csv(out)
         [] rec.parser = "mft" -> parse_filemft(out)
         [] rec.parser = "filestat" /\ "NTFS" \in rec.text -> parse_filestat_csv(out)
         [] OTHER -> NoEff

\* the path of a shortcut line: the " Link target: " capture ("LinkTarget"),
\* else the "Local path: " capture, else the "env location: " capture, else
\* the raw fifth column
LnkPath(rec) ==
  IF "LinkTarget" \in rec.attrs THEN "LinkTarget"
  ELSE IF "LocalPath" \in rec.attrs THEN "LocalPath"
  ELSE IF "EnvLocation" \in rec.attrs THEN "EnvLocation"
  ELSE "col4"

\* parse_lnk of the line-oriented engine; cmd_argument and description are
\* the match or None
parse_lnk_csv(out, rec) ==
  IF rec.parser # "lnk" THEN Eff(<< >>)
  ELSE Row2("lnk_res_file",
            IF out = "csv"
            THEN DateTime \o << F("lnk_target", LnkPath(rec)),
                                F("cmd_argument", ValOrNone(rec, "cmd_argument")),
                                F("description", ValOrNone(rec, "description")) >>
            ELSE << F("caseName", "case"), F("workstation", "-"),
                    F("timestamp", "dateTtime"),
                    F("description", ValOrNone(rec, "description")),
                    F("lnk_target", LnkPath(rec)),
                    F("cmd_argument", ValOrNone(rec, "cmd_argument")) >>)

\* parse_prefetch of the line-oriented engine: the three captures are taken
\* with .group(), which raises when a pattern does not match
parse_prefetch_csv(out, rec) ==
  Need(rec, {"run_count", "path_hints", "prefetch_name"},
       Row2("prefetch_res_file",
            IF out = "csv"
            THEN DateTime \o << F("action", "col1"), F("executable", "prefetch_name"),
                                F("run_count", "run_count"), F("path_hints", "path_hints") >>
            ELSE << F("caseName", "case"), F("workstation", "-"), F("timestamp", "dateTtime"),
                    F("executable", "prefetch_name"), F("path_hints", "path_hints"),
                    F("run_count", "run_count") >>))

parse_winfile_csv(out, rec) ==
  LET artefact_subtype == ScanTable(d_regex_artefact_by_source_name("csv"), LineLits(rec), 1) IN
  CASE artefact_subtype = "prefetch" -> parse_prefetch_csv(out, rec)
    [] artefact_subtype = "lnk" -> parse_lnk_csv(out, rec)
    [] OTHER -> NoEff

identify_artefact_type(rec) == ScanTable(d_regex_type_artefact("csv"), Lits(rec.parser), 1)

\* the table key is "winFile", the test is  artefact_type == "winfile", and
\* the branch returns before it calls parse_winfile
assign_parser_csv(out, cfg, rec) ==
  LET artefact_type == identify_artefact_type(rec) IN
  Then(When(artefact_type = "evtx", parse_evtx(out, cfg, rec)),
  Then(When(artefact_type = "db", parse_db_csv(out, rec)),
  Then(When(artefact_type = "hive", parse_hives_csv(out, rec)),
  Then(When(artefact_type = "winfile", NoEff),
       When(artefact_type = "mft", parse_mft_csv(out, cfg, rec))))))

\* line.split(',')[5] raises on a line with fewer than six columns
LineCsv(out, cfg, rec) == IF ~rec.valid THEN Raise(FALSE) ELSE assign_parser_csv(out, cfg, rec)


\* ------------------------------------------------------ one line, any engine
Line(eng, out, cfg, fl, rec) ==
  IF eng = "csv" THEN LineCsv(out, cfg, rec) ELSE LineDict(eng, out, cfg, fl, rec)

\* ------------------------------------------------------------ csv headers
HD(eng) == IF eng = "json" THEN << "Date", "Time" >> ELSE << "Date", "time" >>
Hd(eng) == IF eng = "json" THEN << "Date", "Time" >> ELSE << "date", "time" >>

l_csv_header(eng, h) ==
  CASE h \in {"logon_res_file", "logon_failed_file", "logon_spe_file", "logon_exp_file"} ->
         HD(eng) \o << "event_code", "logon_type", "subject_user_name", "target_user_name",
                       "ip_address", "ip_port", "workstation_name" >>
    [] h = "new_proc_file" ->
         HD(eng) \o << "event_code", "new_process_name", "command_line", "parent_process_name",
                       "subject_user_name", "target_user_name", "workstation_name" >>
    [] h = "task_scheduler_file" ->
         HD(eng) \o << "event_code", "name", "task_name", "instance_id", "action_name",
                       "result_code", "user_name", "user_context" >>
    [] h = "remote_rdp_file" -> Hd(eng) \o << "event_code", "user_name", "ip_addr" >>
    [] h = "local_rdp_file" ->
         Hd(eng) \o << "event_code", "user_name", "ip_addr", "session_id", "source",
                       "target_session", "reason_n", "reason" >>
    [] h = "bits_file" ->
         Hd(eng) \o << "event_code", "id", "job_id", "job_title", "job_owner", "user",
                       "bytes_total", "bytes_transferred", "file_count", "file_length",
                       "file_time", "name", "url", "process_path" >>
    [] h = "service_file" ->
         Hd(eng) \o << "event_code", "account_name", "img_path", "service_name", "start_type" >>
    [] h = "powershell_file" -> Hd(eng) \o << "event_code", "path_to_script", "script_block_text" >>
    [] h = "powershell_script_file" -> Hd(eng) \o << "event_code", "cmd" >>
    [] h = "wmi_file" -> Hd(eng) \o << "user", "nameSpace", "Query" >>
    [] h = "app_exp_file" -> Hd(eng) \o << "ExePath", "FixName", "Query" >>
    [] h = "amcache_res_file" ->
         IF eng = "json" THEN HD(eng) \o << "Name", "id", "FullPath", "Hash" >>
         ELSE HD(eng) \o << "name", "id", "sha256", "full_path" >>
    [] h = "app_compat_res_file" ->
         IF eng = "json" THEN HD(eng) \o << "Name", "FullPath", "Hash" >>
         ELSE HD(eng) \o << "name", "sha256", "full_path" >>
    [] h = "sam_res_file" -> HD(eng) \o << "username", "login_count" >>
    [] h = "user_assist_file" -> HD(eng) \o << "valueName", "appFocus", "appDuration" >>
    [] h = "mru_res_file" -> HD(eng) \o << "entries" >>
    [] h = "srum_res_file" -> HD(eng) \o << "description" >>
    [] h = "run_res_file" -> HD(eng) \o << "entrie" >>
    [] h \in {"ff_history_res_file", "ie_history_res_file"} ->
         HD(eng) \o << "url", "visit_count", "visit_type", "isType", "from_visit" >>
    [] h = "prefetch_res_file" -> HD(eng) \o << "name", "path", "nbExec", "sha256" >>
    [] h = "lnk_res_file" -> HD(eng) \o << "description", "working_dir" >>
    [] h = "mft_res_file" ->
         IF eng = "json" THEN HD(eng) \o << "source", "fileName", "action", "fileType" >>
         ELSE HD(eng) \o << "type", "action", "filePath" >>
    [] h = "windefender_res_file" ->
         HD(eng) \o << "Event", "ThreatName", "Severity", "User", "ProcessName", "Path", "Action" >>

\* the two writes that put the header line into a freshly opened csv stream
\* self.separator.join(header): the configured separator joins the columns
HeaderWrite(eng, sep, h) ==
  LET cols == l_csv_header(eng, h) IN
  << [h |-> h, k |-> "header", row |-> [i \in 1..Len(cols) |-> F(cols[i], cols[i])],
      sep |-> sep], NL(h) >>

initialise_result_file(eng, out, sep, cfg) ==
  [h \in Handles |->
     IF InitKey(eng, out, h) \in cfg /\ out = "csv" THEN HeaderWrite(eng, sep, h) ELSE << >>]

\* --------------------------------------------------------- writing, closing
\* The write() calls of one line, in order.  A write on an attribute that is
\* not an open stream raises (a str has no write) and ends the line there.
RECURSIVE ApplyWrites(_, _, _)
ApplyWrites(fl, st, ws) ==
  IF ws = << >> THEN [streams |-> st, raises |-> FALSE]
  ELSE LET w == Head(ws) IN
       IF fl[w.h] # "open" THEN [streams |-> st, raises |-> TRUE]
       ELSE ApplyWrites(fl, [st EXCEPT ![w.h] = Append(@, w)], Tail(ws))

\* the handles close_files never mentions
NotClosed(eng) ==
  CASE eng = "json" -> {"logon_exp_file", "new_proc_file", "mru_res_file",
                        "windefender_res_file"}
    [] eng = "csv" -> {"logon_exp_file", "new_proc_file", "mru_res_file",
                       "ie_history_res_file", "windefender_res_file"}
    [] eng = "base" -> {"mru_res_file", "ie_history_res_file", "mft_res_file",
                        "windefender_res_file"}

\* base engine: the unguarded .close() calls in program order
CloseOrder ==
  << "logon_res_file", "logon_failed_file", "logon_spe_file", "new_proc_file",
     "logon_exp_file", "task_scheduler_file", "remote_rdp_file", "local_rdp_file",
     "bits_file", "service_file", "powershell_file", "powershell_script_file",
     "wmi_file", "app_exp_file", "amcache_res_file", "app_compat_res_file",
     "sam_res_file", "user_assist_file", "srum_res_file", "run_res_file",
     "ff_history_res_file", "prefetch_res_file", "lnk_res_file" >>

RECURSIVE CloseInOrder(_, _)
CloseInOrder(fl, i) ==
  IF i > Len(CloseOrder) THEN [files |-> fl, raises |-> FALSE]
  ELSE IF fl[CloseOrder[i]] = "unset" THEN [files |-> fl, raises |-> TRUE]
  ELSE CloseInOrder([fl EXCEPT ![CloseOrder[i]] = "closed"], i + 1)

close_files(eng, fl) ==
  IF eng = "base" THEN CloseInOrder(fl, 1)
  ELSE [files |-> [h \in Handles |->
                     IF h \notin NotClosed(eng) /\ fl[h] = "open" THEN "closed" ELSE fl[h]],
        raises |-> FALSE]

\* -------------------------------------------------------------- the machine
\* number of data rows (body writes) in a list of writes
RECURSIVE Bodies(_)
Bodies(ws) ==
  IF ws = << >> THEN 0
  ELSE (IF Head(ws).k = "body" THEN 1 ELSE 0) + Bodies(Tail(ws))

RECURSIVE SumLen(_, _)
SumLen(st, hs) ==
  IF hs = {} THEN 0
  ELSE LET h == CHOOSE x \in hs : TRUE IN Bodies(st[h]) + SumLen(st, hs \ {h})

\* data rows held by all the streams together
TotalRows(st) == SumLen(st, Handles)

NoRecord == Other("", "", {}, 0)

\* what the dispatch of each engine computes for a record: the category
\* (first lookup) and the subtype (second lookup); "raise" when the lookup
\* raises, "n/a" when the dispatch makes no second lookup
Category(eng, rec) ==
  IF ~rec.valid THEN "raise"
  ELSE IF eng = "csv" THEN identify_artefact_type(rec)
  ELSE IF rec.parser = NONE THEN "raise"
  ELSE identify_type_artefact_by_parser(eng, rec)

Subtype(eng, rec) ==
  LET c == Category(eng, rec) IN
  IF eng = "csv"
  THEN IF c \in {"evtx", "db", "hive"} THEN identify_artefact_by_source(rec) ELSE "n/a"
  ELSE CASE c = "evtx" -> IF rec.source_name = NONE THEN "raise"
                          ELSE identify_artefact_by_source_name(eng, rec)
         [] c \in {"hive", "db", "winFile"} -> identify_artefact_by_parser_name(eng, rec)
         [] OTHER -> "n/a"

\* state after the constructor: configuration read, streams opened, headers
\* written; the timeline has nLines lines
Init ==
  /\ engine \in Engines
  /\ output_type \in OutputTypes
  /\ separator \in Separators
  /\ config \in Configs(engine)
  /\ files = initialise_results_files(engine, output_type, config)
  /\ streams = initialise_result_file(engine, output_type, separator, config)
  /\ nLines \in 0..MaxLines
  /\ linesRead = 0
  /\ pc = "loop"
  /\ aborted = FALSE
  /\ sourceFailed = FALSE
  /\ closeRaised = FALSE
  /\ last = [seen |-> FALSE, rec |-> NoRecord, rows |-> 0, raised |-> FALSE,
             extracted |-> FALSE, category |-> "n/a",
             subtype |-> "n/a"]

\* parse_timeline, one iteration of "for line in timeline" together with
\* the except branch when the iteration raises
ProcessLine ==
  /\ pc = "loop"
  /\ linesRead < nLines
  /\ \E rec \in Records :
       LET eff == Line(engine, output_type, config, files, rec)
           res == ApplyWrites(files, streams, eff.writes)
           raised == res.raises \/ eff.raises
           c == close_files(engine, files)
       IN /\ streams' = res.streams
          /\ linesRead' = linesRead + 1
          /\ last' = [seen |-> TRUE, rec |-> rec,
                      rows |-> TotalRows(res.streams) - TotalRows(streams),
                      raised |-> raised, extracted |-> eff.extracted,
                      category |-> Category(engine, rec),
                      subtype |-> Subtype(engine, rec)]
          /\ IF raised
             THEN /\ aborted' = TRUE
                  /\ files' = c.files
                  /\ closeRaised' = c.raises
                  /\ pc' = "done"
             ELSE UNCHANGED <<aborted, files, closeRaised, pc>>
  /\ UNCHANGED <<engine, output_type, separator, config, nLines, sourceFailed>>

\* parse_timeline after the loop: close_files; when that raises, the except
\* branch calls close_files again
EndOfInput ==
  /\ pc = "loop"
  /\ linesRead = nLines
  /\ LET c == close_files(engine, files)
         c2 == close_files(engine, c.files)
     IN /\ files' = IF c.raises THEN c2.files ELSE c.files
        /\ closeRaised' = c.raises
  /\ pc' = "done"
  /\ UNCHANGED <<engine, output_type, separator, config, streams, nLines, linesRead, aborted,
                 sourceFailed, last>>

\* the timeline cannot be opened or read any further: the except branch
SourceFails ==
  /\ pc = "loop"
  /\ linesRead < nLines
  /\ LET c == close_files(engine, files)
     IN /\ files' = c.files
        /\ closeRaised' = c.raises
  /\ sourceFailed' = TRUE
  /\ pc' = "done"
  /\ UNCHANGED <<engine, output_type, separator, config, streams, nLines, linesRead, aborted, last>>

Next == ProcessLine \/ EndOfInput \/ SourceFails

Spec == Init /\ [][Next]_vars

\* ------------------------------------------------------------------ claims
\* C1: in every engine, a line that fails (cannot be deserialized, or its
\* classification or extraction raises) produces no row and every later
\* line is still read; only a failure of the input source stops the run.
C1_PerLineFailureContinues ==
  /\ (last.seen /\ last.raised => last.rows = 0)
  /\ (pc = "done" /\ ~sourceFailed => linesRead = nLines)

\* C2: when parse_timeline has returned, every stream that was opened at
\* initialisation is closed and close_files did not raise, whatever the
\* configuration.
C2_AllStreamsClosed ==
  pc = "done" => /\ \A h \in Handles : files[h] # "open"
                 /\ ~closeRaised

\* the stream a well-formed record of an accepted type is meant for
StreamOf(rec) ==
  CASE rec.source_name = SEC /\ rec.code = 4624 -> "logon_res_file"
    [] rec.source_name = SEC /\ rec.code = 4648 -> "logon_exp_file"
    [] rec.source_name = SEC /\ rec.code = 4688 -> "new_proc_file"
    [] rec.source_name = "Microsoft-Windows-Bits-Client" /\ rec.code = 3 -> "bits_file"
    [] rec.source_name = LSM /\ rec.code = 1149 -> "remote_rdp_file"
    [] rec.source_name = LSM /\ rec.code = 40 -> "local_rdp_file"
    [] rec.parser = "winreg/windows_run" -> "run_res_file"
    [] rec.parser = "winreg/mrulistex_string" -> "mru_res_file"
    [] rec.parser = "winreg/amcache" -> "amcache_res_file"
    [] rec.parser = "sqlite/firefox_history" -> "ff_history_res_file"
    [] rec.parser = "esedb/srum" -> "srum_res_file"
    [] rec.parser = "lnk" -> "lnk_res_file"
    [] OTHER -> ""

\* the enabled flag of that stream: the same key in every engine's configuration
FlagOf(rec) ==
  CASE StreamOf(rec) = "logon_res_file" -> "4624"
    [] StreamOf(rec) = "logon_exp_file" -> "4648"
    [] StreamOf(rec) = "new_proc_file" -> "4688"
    [] StreamOf(rec) = "bits_file" -> "bits"
    [] StreamOf(rec) = "remote_rdp_file" -> "remote_rdp"
    [] StreamOf(rec) = "local_rdp_file" -> "local_rdp"
    [] StreamOf(rec) = "run_res_file" -> "run"
    [] StreamOf(rec) = "mru_res_file" -> "mru"
    [] StreamOf(rec) = "amcache_res_file" -> "amcache"
    [] StreamOf(rec) = "ff_history_res_file" -> "ff_history"
    [] StreamOf(rec) = "srum_res_file" -> "srum"
    [] StreamOf(rec) = "lnk_res_file" -> "lnk"
    [] OTHER -> ""

\* a record with nothing missing: deserializable, numeric code, markup present
WellFormed(rec) ==
  /\ rec.valid
  /\ ~rec.codeText
  /\ rec.parser = "winevtx" => rec.xml = "ok" /\ rec.source_name # NONE

\* C3: a record of an artifact type whose enabled flag is off triggers no
\* extraction, appends no row and raises no error, and the run goes on; in
\* all three engines.
C3_DisabledTypeSkipped ==
  (last.seen /\ WellFormed(last.rec) /\ FlagOf(last.rec) # ""
     /\ FlagOf(last.rec) \notin config)
  => /\ ~last.extracted
     /\ last.rows = 0
     /\ ~last.raised
     /\ ~aborted

\* the key that enables a stream in the engine's own default configuration
\* dict ("" for a stream the engine has no type for)
ConfigKey(eng, h) ==
  CASE h = "task_scheduler_file" -> IF eng = "csv" THEN "taskScheduler" ELSE "task_scheduler"
    [] h = "service_file" -> IF eng = "csv" THEN "7045" ELSE "service"
    [] h = "mft_res_file" -> IF eng = "base" THEN "" ELSE "mft"
    [] h = "windefender_res_file" -> IF eng = "json" THEN "windefender" ELSE ""
    [] h = "ie_history_res_file" -> ""
    [] OTHER -> InitKey("base", "csv", h)

\* C4: every artifact type whose enabled flag is set in the configuration in
\* use (the built-in default included, in both output formats) has its stream
\* open while records are read.
C4_EnabledStreamsOpen ==
  pc = "loop" =>
    \A h \in Handles : ConfigKey(engine, h) \in config => files[h] = "open"

\* a deserializable record that the tables cannot classify: the category
\* discriminator is absent or matches nothing, or no subtype entry matches
Unclassifiable(eng, rec) ==
  /\ rec.valid
  /\ \/ rec.parser = NONE
     \/ ScanTable(d_regex_type_artefact(eng), Lits(rec.parser), 1) = "None"
     \/ Subtype(eng, rec) = "None"

\* C5: a record that cannot be classified is ignored: no row, no error, and
\* the run goes on with the next record.
C5_UnclassifiableIgnored ==
  (last.seen /\ Unclassifiable(engine, last.rec))
  => /\ last.rows = 0
     /\ ~last.raised
     /\ ~aborted

\* C6: an event-log record whose subsystem name is absent or matches no
\* entry, and whose file name matches the file-name table, is classified by
\* its file name.
C6_FilenameFallback ==
  (/\ last.seen
   /\ last.rec.valid
   /\ last.rec.parser = "winevtx"
   /\ ScanTable(d_regex_artefact_by_source_name(engine), Lits(last.rec.source_name), 1) = "None"
   /\ identify_artefact_by_filename(last.rec) # "None")
  => last.subtype = identify_artefact_by_filename(last.rec)

\* indices of the entries of a table whose pattern matches
Matching(table, lits) == {i \in 1..Len(table) : table[i].pat \cap lits # {}}

\* key of the matching entry of least index, "None" when there is none
FirstMatching(table, lits) ==
  LET M == Matching(table, lits) IN
  IF M = {} THEN "None" ELSE table[CHOOSE i \in M : \A j \in M : i <= j].key

\* table and discriminator of the second lookup of each engine
SubtypeTable(eng, category) ==
  IF eng = "csv" THEN d_regex_artefact_by_source
  ELSE IF category = "evtx" THEN d_regex_artefact_by_source_name(eng)
  ELSE d_regex_artefact_by_parser_name(eng)

SubtypeLits(eng, category, rec) ==
  IF eng = "csv" THEN LineLits(rec)
  ELSE IF category = "evtx" THEN Lits(rec.source_name)
  ELSE Lits(rec.parser)

\* C7: each table lookup returns the key of the earliest entry, in table
\* order, whose pattern matches the discriminator, and classifying the same
\* record again returns the same category and subtype.
C7_FirstMatchWins ==
  last.seen =>
    /\ last.category # "raise" =>
         last.category = FirstMatching(d_regex_type_artefact(engine), Lits(last.rec.parser))
    /\ last.subtype \notin {"raise", "n/a"} =>
         last.subtype = FirstMatching(SubtypeTable(engine, last.category),
                                      SubtypeLits(engine, last.category, last.rec))
    /\ Category(engine, last.rec) = last.category
    /\ Subtype(engine, last.rec) = last.subtype

\* a lookup in which two entries of the table match was made and answered
\* with the earlier one
C7_Witness ==
  /\ last.seen
  /\ last.subtype \notin {"raise", "n/a", "None"}
  /\ Cardinality(Matching(SubtypeTable(engine, last.category),
                          SubtypeLits(engine, last.category, last.rec))) >= 2
  /\ last.subtype = "powershell"
  /\ last.rec.parser = "winreg/windows_run"

\* the event codes each event-log subtype accepts
AcceptedCodes(subtype) ==
  CASE subtype = "security" -> {4624, 4625, 4672, 4648, 4688}
    [] subtype \in {"system", "service"} -> {7045}
    [] subtype = "taskScheduler" -> {106, 107, 140, 141, 200, 201}
    [] subtype = "bits" -> {3, 4, 59, 60, 61}
    [] subtype = "rdp_local" -> {1149, 21, 24, 25, 39, 40}
    [] subtype = "powershell" -> {400, 600, 4104, 4105, 4106}
    [] subtype = "wmi" -> {5858, 5860, 5861}
    [] subtype = "application_experience" -> {17, 500, 505}
    [] subtype = "windefender" -> {1116, 1117, 1118, 1119}
    [] OTHER -> {}

\* the last record is an event-log record of a matched subtype whose code is
\* outside the accepted set of that subtype
CodeRejected ==
  /\ last.seen
  /\ last.category = "evtx"
  /\ last.subtype \notin {"raise", "n/a", "None"}
  /\ last.rec.code # 0
  /\ last.rec.code \notin AcceptedCodes(last.subtype)

\* C8: an event-log record whose subtype matches and whose event code is
\* outside the accepted set appends no row to any stream and raises no error.
C8_RejectedCodeNoRow ==
  CodeRejected => last.rows = 0 /\ ~last.raised /\ ~aborted

\* a session-manager record with code 23 went through the remote-desktop
\* gate while both remote-desktop streams were open
C8_Witness ==
  /\ CodeRejected
  /\ last.subtype = "rdp_local"
  /\ last.rec.code = 23
  /\ pc = "loop"
  /\ files["remote_rdp_file"] = "open"
  /\ files["local_rdp_file"] = "open"
  /\ last.rows = 0

IsMruOrRun(rec) ==
  rec.parser \in {"winreg/windows_run", "winreg/bagmru/shell_items", "winreg/mrulistex_string"}

\* C9: a record other than a shell-bag/MRU or run-key record appends at most
\* one row in total over all streams, and none when its classification or
\* its event-code gate fails.
C9_AtMostOneRow ==
  (last.seen /\ ~IsMruOrRun(last.rec)) =>
    /\ last.rows <= 1
    /\ (last.category \in {"None", "raise"} \/ last.subtype \in {"None", "raise"}
        \/ CodeRejected) => last.rows = 0

\* a database record was extracted and appended exactly one row
C9_Witness ==
  /\ last.seen
  /\ last.rec.parser = "esedb/srum"
  /\ last.extracted
  /\ last.rows = 1

LogonStreams == {"logon_res_file", "logon_failed_file", "logon_spe_file", "logon_exp_file"}

\* C10: every data row of a csv stream has as many columns as the header of
\* the stream and lists its fields in the header's order (logon streams:
\* Date, Time, event_code, logon_type, subject_user_name, target_user_name,
\* ip_address, ip_port, workstation_name).
C10_RowsFollowHeader ==
  output_type = "csv" =>
    \A h \in Handles : \A i \in 1..Len(streams[h]) :
      streams[h][i].k = "body" =>
        LET row == streams[h][i].row
            header == l_csv_header(engine, h) IN
        /\ Len(row) = Len(header)
        /\ h \in LogonStreams => \A j \in 3..Len(header) : row[j].f = header[j]

\* what a formatted field holds when its variable was never given a value:
\* Python's None, or the builtin function that the name "id" denotes
Undefined == {"None", "<built-in function id>"}

\* C11: every field of every emitted row is a value extracted from the
\* record or the sentinel "-"; no row holds an unset, None or otherwise
\* undefined field, for any record and either output format.
C11_NoUndefinedField ==
  \A h \in Handles : \A i \in 1..Len(streams[h]) :
    streams[h][i].k = "body" =>
      \A j \in 1..Len(streams[h][i].row) : streams[h][i].row[j].v \notin Undefined

\* a stream made of whole lines only: every header or row body is directly
\* followed by its terminator and every terminator directly follows one
WholeRows(st) ==
  /\ Len(st) % 2 = 0
  /\ \A i \in 1..Len(st) :
       IF i % 2 = 1 THEN st[i].k \in {"header", "body"} ELSE st[i].k = "nl"

\* C12: after any run, stopped by an error or not, every stream consists of
\* whole rows only: no row body without its terminator and no terminator
\* without a row body.
C12_WholeRowsOnly ==
  \A h \in Handles : WholeRows(streams[h])

\* the stream that belongs to the artifact type of a record
OwnStream(rec) ==
  IF StreamOf(rec) # "" THEN StreamOf(rec)
  ELSE CASE rec.source_name = "Microsoft-Windows-Windows Defender" -> "windefender_res_file"
         [] rec.source_name = "Service Control Manager" -> "service_file"
         [] rec.source_name = TSK -> "task_scheduler_file"
         [] rec.source_name = "Microsoft-Windows-Application-Experience" -> "app_exp_file"
         [] rec.source_name = LSM -> "local_rdp_file"
         [] rec.parser \in {"filestat", "usnjrnl", "mft"} -> "mft_res_file"
         [] OTHER -> ""

\* C13: processing a record of artifact type T appends to T's own stream only
\* and leaves every other stream unchanged, in both output formats (an
\* antivirus record never writes to the logon stream).
C13_OnlyOwnStream ==
  [][\A h \in Handles : streams'[h] # streams[h] => h = OwnStream(last'.rec)]_vars

\* the data rows of a stream, and those the last record appended to it
BodiesOf(st) == SelectSeq(st, LAMBDA w : w.k = "body")
LastRows(h) ==
  LET b == BodiesOf(streams[h]) IN SubSeq(b, Len(b) - last.rows + 1, Len(b))

\* positions of the delimiters of a blob, and the positions of the path text
\* of the sub-entry that starts at delimiter i
Starts(blob) == {i \in 1..Len(blob) : blob[i] = "Index:"}
PathPositions(blob, i) ==
  {j \in 1..Len(blob) :
     /\ i < j
     /\ \A k \in Starts(blob) : k > i => j < k
     /\ blob[j] \notin {"Index:", HdrShell, HdrValue, Unknown, " "}}

\* the path texts of a blob in their order
PathsOf(blob) ==
  SelectSeq(blob, LAMBDA t : t \notin {"Index:", HdrShell, HdrValue, Unknown, " "})

\* the MRU extractor ran on the entries blob of the last record
MruExtracted ==
  /\ last.seen
  /\ last.rec.parser = "winreg/mrulistex_string"
  /\ "entries" \in last.rec.attrs
  /\ last.extracted
  /\ ~last.raised

\* C14: the MRU extractor applied to an entries blob with N "Index:"-delimited
\* sub-entries appends one row per sub-entry that is non-empty after cleanup
\* and no other row, each row holding the cleaned path of its sub-entry, in
\* the order of the sub-entries.
C14_MruFanOut ==
  MruExtracted =>
    LET blob == last.rec.blob
        rows == LastRows("mru_res_file") IN
    /\ last.rows = Cardinality({i \in Starts(blob) : PathPositions(blob, i) # {}})
    /\ Len(rows) = Len(PathsOf(blob))
    /\ \A k \in 1..Len(rows) : rows[k].row[Len(rows[k].row)].v = PathsOf(blob)[k]

\* a blob of three sub-entries, one of them empty after cleanup, gave two rows
C14_Witness ==
  /\ MruExtracted
  /\ engine = "json"
  /\ last.rec.blob = BlobMixed
  /\ Cardinality(Starts(last.rec.blob)) = 3
  /\ last.rows = 2

BITS == "Microsoft-Windows-Bits-Client"
\* the attribute names the BITS extractor looks for
BitsAttrs == {"User", "Id", "jobOwner", "jobId", "jobTitle", "bytesTotal", "bytesTransferred",
              "fileCount", "fileLength", "fileTime", "name", "url", "processPath"}
\* the thirteen optional fields of a BITS row (the json dict names the id
\* field "identifiant")
BitsFields == {"id", "job_id", "job_title", "job_owner", "user", "bytes_total",
               "bytes_transferred", "file_count", "file_length", "file_time", "name", "url",
               "process_path"}
HasDash(row, n) ==
  \E j \in 1..Len(row) :
    /\ row[j].f = n \/ (n = "id" /\ row[j].f = "identifiant")
    /\ row[j].v = "-"

\* an accepted BITS record without any matching attribute was read while the
\* BITS output is enabled
BitsNoAttrs ==
  /\ last.seen
  /\ WellFormed(last.rec)
  /\ last.rec.source_name = BITS
  /\ last.rec.code \in BitsCodes
  /\ last.rec.attrs \cap BitsAttrs = {}
  /\ "bits" \in config

\* C15: a BITS record with an accepted code and no matching attribute is not
\* skipped: it appends exactly one row whose thirteen optional fields (id, job
\* id, job title, job owner, user, bytes total, bytes transferred, file count,
\* file length, file time, name, url, process path) are all "-", in both
\* output formats.
C15_BitsAllDashRow ==
  BitsNoAttrs =>
    /\ ~last.raised
    /\ last.rows = 1
    /\ Len(BodiesOf(streams["bits_file"])) >= 1
    /\ \A n \in BitsFields : HasDash(LastRows("bits_file")[1].row, n)

\* the fields of a row that follow its date and time (csv) or its case,
\* workstation and timestamp (json)
Payload(row) ==
  SelectSeq(row, LAMBDA x : x.f \notin {"Date", "Time", "caseName", "workstation_name",
                                        "workstation", "timestamp"})
Values(row) == [j \in 1..Len(row) |-> row[j].v]

\* a 4624 record that holds subject, target, address, port and logon type was
\* read while the logon output is enabled
FullLogon ==
  /\ last.seen
  /\ WellFormed(last.rec)
  /\ last.rec.source_name = SEC
  /\ last.rec.code = 4624
  /\ {"SubjectUserName", "TargetUserName", "IpAddress", "IpPort"} \subseteq last.rec.attrs
  /\ LogonTypeVal(last.rec) # "-"
  /\ "4624" \in config

\* C16: a logon record of code 4624 with subject user S, target user T,
\* address A, port P and logon type L (two-digit types included) yields
\* exactly one row holding (date, time, 4624, L, S, T, A, P) in that order,
\* in every engine that handles logon records.
C16_LogonRowOrder ==
  FullLogon =>
    /\ ~last.raised
    /\ last.rows = 1
    /\ Len(BodiesOf(streams["logon_res_file"])) >= 1
    /\ Values(Payload(LastRows("logon_res_file")[1].row))
         = << "4624", LogonTypeVal(last.rec), "SubjectUserName", "TargetUserName",
              "IpAddress", "IpPort" >>

\* the action symbol of each accepted scheduled-task code
TaskSymbol(c) ==
  CASE c = 106 -> "JOB_REGISTERED"
    [] c = 107 -> "TIME_TRIGGER"
    [] c = 140 -> "TASK_UPDATED"
    [] c = 141 -> "TASK_DELETED"
    [] c = 200 -> "ACTION_START"
    [] c = 201 -> "ACTION_SUCCESS"
    [] OTHER -> "-"

\* an accepted scheduled-task record with its task name and user was read
\* while the engine's scheduled-task output is enabled
TaskRecord ==
  /\ last.seen
  /\ WellFormed(last.rec)
  /\ last.rec.source_name = TSK
  /\ last.rec.code \in TaskCodes
  /\ TaskAttrs \subseteq last.rec.attrs
  /\ ConfigKey(engine, "task_scheduler_file") \in config

HasValue(row, n, vals) == \E j \in 1..Len(row) : row[j].f = n /\ row[j].v \in vals

\* C17: a scheduled-task record with an accepted code yields one row whose
\* action symbol is fixed by the code (106 JOB_REGISTERED, 107 TIME_TRIGGER,
\* 140 TASK_UPDATED, 141 TASK_DELETED, 200 ACTION_START, 201 ACTION_SUCCESS)
\* and is never "-", with the task name and, for the registration codes, the
\* user taken from the record.
C17_TaskActionSymbol ==
  TaskRecord =>
    /\ ~last.raised
    /\ last.rows = 1
    /\ Len(BodiesOf(streams["task_scheduler_file"])) >= 1
    /\ LET row == LastRows("task_scheduler_file")[1].row IN
       /\ HasValue(row, "action", {TaskSymbol(last.rec.code)})
       /\ HasValue(row, "task_name", {"Strings0", "TaskName"})
       /\ last.rec.code \in {106, 107, 140, 141}
            => HasValue(row, "user_name", {"Strings1", "UserName"})

\* a shortcut-file line was read by the line-oriented engine while the
\* shortcut output is enabled
LnkRecord ==
  /\ last.seen
  /\ engine = "csv"
  /\ last.rec.valid
  /\ last.rec.parser = "lnk"
  /\ "lnk" \in config

\* C18: a shortcut-file record in the line-oriented engine yields a row whose
\* path is the link-target capture when present, else the local-path capture,
\* else the env-path capture, else the raw field (a line holding only
\* "env location: C:\Foo" gives the path C:\Foo).
C18_LnkPathPriority ==
  LnkRecord =>
    /\ ~last.raised
    /\ last.rows = 1
    /\ Len(BodiesOf(streams["lnk_res_file"])) >= 1
    /\ HasValue(LastRows("lnk_res_file")[1].row, "lnk_target", {LnkPath(last.rec)})

\* the reason symbol of each accepted local-session code
RdpSymbol(c) ==
  CASE c = 21 -> "AuthSuccess"
    [] c = 24 -> "UserDisconnected"
    [] c = 25 -> "UserReconnected"
    [] c \in {39, 40} -> "UserHasBeenDisconnected"
    [] OTHER -> "-"

\* an accepted local-session record was read while the local-session output
\* is enabled
LocalRdpRecord ==
  /\ last.seen
  /\ WellFormed(last.rec)
  /\ last.rec.source_name = LSM
  /\ last.rec.code \in RdpLocalCodes
  /\ "local_rdp" \in config

\* C19: an RDP local-session record with an accepted code yields one row
\* whose reason symbol is fixed by the code (21 AuthSuccess, 24
\* UserDisconnected, 25 UserReconnected, 39 and 40 UserHasBeenDisconnected)
\* and is never "-", in every engine where the local-session output is
\* enabled.
C19_RdpReasonSymbol ==
  LocalRdpRecord =>
    /\ ~last.raised
    /\ last.rows = 1
    /\ Len(BodiesOf(streams["local_rdp_file"])) >= 1
    /\ HasValue(LastRows("local_rdp_file")[1].row, "reason", {RdpSymbol(last.rec.code)})
    /\ RdpSymbol(last.rec.code) # "-"

\* the five optional fields of a logon row
LogonFields == {"subject_user_name", "target_user_name", "ip_address", "ip_port", "logon_type"}

\* the logon extractor of a dictionary engine was entered, with the logon
\* output enabled, on a record whose markup payload is missing, or holds no attribute child, or only a child
\* without a Name
MarkupDeficient ==
  /\ last.seen
  /\ engine # "csv"
  /\ last.rec.valid
  /\ last.rec.source_name = SEC
  /\ last.rec.code = 4624
  /\ "4624" \in config
  /\ last.extracted
  /\ last.rec.xml = "missing" \/ last.rec.attrs \subseteq {""}

\* C20: markup extraction tolerates a missing markup payload, an empty
\* attribute child-list and a child lacking a Name: no error is raised, the
\* run is not stopped, the child without a Name is skipped and the row's
\* fields keep "-".
C20_MarkupTolerated ==
  MarkupDeficient =>
    /\ ~last.raised
    /\ ~aborted
    /\ last.rows = 1
    /\ Len(BodiesOf(streams["logon_res_file"])) >= 1
    /\ \A n \in LogonFields : HasDash(LastRows("logon_res_file")[1].row, n)

\* the line-oriented engine read a 4624 line without the source-port text
\* while the logon output is enabled
LogonLineNoPort ==
  /\ last.seen
  /\ engine = "csv"
  /\ WellFormed(last.rec)
  /\ last.rec.source_name = SEC
  /\ last.rec.code = 4624
  /\ last.rec.attrs = LogonAttrs \ {"IpPort"}
  /\ "4624" \in config

\* the line-oriented engine read a task-launch line whose strings list has
\* two elements while the scheduled-task output is enabled and open
TaskLineShort ==
  /\ last.seen
  /\ engine = "csv"
  /\ output_type = "csv"
  /\ WellFormed(last.rec)
  /\ last.rec.source_name = TSK
  /\ last.rec.code = 200
  /\ "Strings3" \notin last.rec.attrs
  /\ "taskScheduler" \in config

\* C21: in the line-oriented extractors a field pattern that does not match
\* leaves the field at "-" and raises no error: a logon line without the
\* source-port text, or a scheduled-task line whose strings list is shorter
\* than the index read, still yields a row with "-" in that field, and the
\* run is not stopped.
C21_UnmatchedPatternDash ==
  /\ LogonLineNoPort =>
       /\ ~last.raised
       /\ ~aborted
       /\ last.rows = 1
       /\ Len(BodiesOf(streams["logon_res_file"])) >= 1
       /\ HasDash(LastRows("logon_res_file")[1].row, "ip_port")
  /\ TaskLineShort =>
       /\ ~last.raised
       /\ ~aborted
       /\ last.rows = 1
       /\ Len(BodiesOf(streams["task_scheduler_file"])) >= 1
       /\ HasDash(LastRows("task_scheduler_file")[1].row, "reason")

\* C22: no emitted row contains a line break: a value that carries embedded
\* newlines (a WMI query, a PowerShell script-block text, a process command
\* line) is flattened before emission, so every row occupies one line.
C22_NoLineBreakInRow ==
  \A h \in Handles : \A i \in 1..Len(streams[h]) :
    streams[h][i].k = "body" =>
      \A j \in 1..Len(streams[h][i].row) : streams[h][i].row[j].v # NLText

LogonCodes == {4624, 4625, 4672, 4648}
\* the stream of each logon variant
VariantStream(c) ==
  CASE c = 4624 -> "logon_res_file"
    [] c = 4625 -> "logon_failed_file"
    [] c = 4672 -> "logon_spe_file"
    [] OTHER -> "logon_exp_file"
\* the attribute each logon field is read from
FieldTag(n) ==
  CASE n = "subject_user_name" -> "SubjectUserName"
    [] n = "target_user_name" -> "TargetUserName"
    [] n = "ip_address" -> "IpAddress"
    [] n = "ip_port" -> "IpPort"
    [] OTHER -> "LogonType"

Names(row) == [j \in 1..Len(row) |-> row[j].f]
\* a row that carries one of the four logon codes
IsLogonRow(row) ==
  \E j \in 1..Len(row) :
    row[j].f \in {"event_code", "eventCode"} /\ row[j].v \in {"4624", "4625", "4672", "4648"}

\* a record of one of the four logon variants that holds all five fields was
\* read while the variant's output is enabled
LogonVariant ==
  /\ last.seen
  /\ WellFormed(last.rec)
  /\ last.rec.source_name = SEC
  /\ last.rec.code \in LogonCodes
  /\ LogonAttrs \subseteq last.rec.attrs
  /\ CodeVal(last.rec) \in config

\* C23: in each engine the four logon variants (4624, 4625, 4672, 4648)
\* extract the same five fields (subject user, target user, source address,
\* source port, logon type) and emit rows of one identical layout: the row of
\* a variant carries the five fields, and every logon row in the four logon
\* streams lists the same fields in the same order.
C23_LogonVariantsOneLayout ==
  LogonVariant =>
    /\ ~last.raised
    /\ last.rows = 1
    /\ Len(BodiesOf(streams[VariantStream(last.rec.code)])) >= 1
    /\ LET row == LastRows(VariantStream(last.rec.code))[1].row IN
       /\ \A n \in LogonFields : HasValue(row, n, {FieldTag(n)})
       /\ \A h \in LogonStreams : \A i \in 1..Len(streams[h]) :
            (streams[h][i].k = "body" /\ IsLogonRow(streams[h][i].row))
              => Names(streams[h][i].row) = Names(row)

\* a file-system record was read by an engine that has the file-system
\* output, while it is enabled
FsRecord(parsers) ==
  /\ last.seen
  /\ engine # "base"
  /\ last.rec.valid
  /\ last.rec.parser \in parsers
  /\ "mft" \in config

\* C24: a filestat record emits a row if and only if its free-text payload
\* contains the filesystem-type marker (NTFS), whatever its other attributes
\* contain; journal (usnjrnl) and MFT records are emitted without that gate.
C24_FilestatNtfsGate ==
  /\ FsRecord({"filestat"}) =>
       /\ ~last.raised
       /\ last.rows = (IF "NTFS" \in last.rec.text THEN 1 ELSE 0)
  /\ FsRecord({"usnjrnl", "mft"}) =>
       /\ ~last.raised
       /\ last.rows = 1

WINDEF == "Microsoft-Windows-Windows Defender"
\* the attribute each antivirus field is read from
WindefTag(n) ==
  CASE n = "threat_name" -> "Threat Name"
    [] n = "severity" -> "Severity Name"
    [] n = "detection_user" -> "Detection User"
    [] n = "process_name" -> "Process Name"
    [] n = "path" -> "Path"
    [] OTHER -> "Action Name"
WindefFields == {"threat_name", "severity", "detection_user", "process_name", "path", "action"}

\* an antivirus detection or action record was read by the JSON engine while
\* the antivirus output is enabled
WindefRecord ==
  /\ last.seen
  /\ engine = "json"
  /\ WellFormed(last.rec)
  /\ last.rec.source_name = WINDEF
  /\ last.rec.code \in {1116, 1117, 1118, 1119}
  /\ "windefender" \in config

\* C25: every antivirus row, for a detection record (1116) and for an action
\* record (1117, 1118, 1119), carries the six fields threat name, severity,
\* user, process name, path and action, each set from its own attribute when
\* present and "-" otherwise.
C25_WindefSixFields ==
  WindefRecord =>
    /\ ~last.raised
    /\ last.rows = 1
    /\ \E h \in {"windefender_res_file", "logon_res_file"} :
         /\ Len(BodiesOf(streams[h])) >= 1
         /\ LET b == BodiesOf(streams[h])
                row == b[Len(b)].row IN
            \A n \in WindefFields : HasValue(row, n, {Val(last.rec, WindefTag(n))})

HiveStreams == {"amcache_res_file", "app_compat_res_file", "sam_res_file",
                "user_assist_file", "mru_res_file"}

\* C26: in the line-oriented engine the amcache, app-compat, sam, user-assist
\* and mru extraction branches are unreachable: for every input and every
\* configuration no row is ever appended to any of those five streams.
C26_HiveBranchesUnreachable ==
  engine = "csv" => \A h \in HiveStreams : BodiesOf(streams[h]) = << >>

\* the line-oriented engine read an MRU line with two sub-entries while the
\* mru stream is enabled and open, and went on without a row
C26_Witness ==
  /\ engine = "csv"
  /\ last.seen
  /\ last.rec.blob = BlobAB
  /\ last.subtype = "mru"
  /\ "mru" \in config
  /\ files["mru_res_file"] = "open"
  /\ last.rows = 0
  /\ ~last.raised
  /\ pc = "loop"

HiveSubtypes == {"sam", "amcache", "app_compat", "run", "user_assist", "mru"}
DbSubtypes == {"ff_history", "srum"}

\* the line-oriented engine read a run-key line with entries while the
\* run-key output is enabled
RunLine ==
  /\ last.seen
  /\ engine = "csv"
  /\ last.rec.valid
  /\ last.rec.parser = "winreg/windows_run"
  /\ "entries" \in last.rec.attrs
  /\ last.rec.entries > 0
  /\ "run" \in config

\* C27: in the line-oriented engine the subtype assigned to a record belongs
\* to the record's own category: a registry-hive or database line is never
\* assigned an event-log subtype because of text elsewhere in the line, so
\* every run-key line with non-empty entries yields its run-key rows.
C27_SubtypeWithinCategory ==
  /\ (last.seen /\ engine = "csv" /\ last.rec.valid /\ last.category = "hive")
       => last.subtype \in HiveSubtypes \cup {"None"}
  /\ (last.seen /\ engine = "csv" /\ last.rec.valid /\ last.category = "db")
       => last.subtype \in DbSubtypes \cup {"None"}
  /\ RunLine =>
       /\ ~last.raised
       /\ last.rows = last.rec.entries

\* ---------------------------------------------------------------- C28
\* C28: in delimited-text output every data row of a stream uses the column
\* separator of that stream's header, which is the configured separator.
C28_RowSeparatorMatchesHeader ==
  output_type = "csv" =>
    \A h \in Handles : \A i \in 1..Len(streams[h]) :
      streams[h][i].k \in {"header", "body"} => streams[h][i].sep = separator

\* ---------------------------------------------------------------- C29
\* the same record with its code given as a number
AsNumber(rec) == [rec EXCEPT !.codeText = FALSE]

\* C29: in the JSON engine a record whose code is given as text is accepted
\* exactly as the same record with the code given as a number: the line
\* yields as many rows as its numeric twin does.
C29_CodeFormIndependent ==
  (engine = "json" /\ pc = "loop" /\ last.seen /\ last.rec.codeText) =>
    last.rows = Bodies(Line(engine, output_type, config, files, AsNumber(last.rec)).writes)

\* ---------------------------------------------------------------- C30
\* records whose entries attribute holds several sub-entries, the stream
\* their rows go to, and the texts of their sub-entries in order
IsFanOut(rec) ==
  /\ "entries" \in rec.attrs
  /\ rec.parser \in {"winreg/windows_run", "winreg/mrulistex_string"}
FanOutStream(rec) ==
  IF rec.parser = "winreg/windows_run" THEN "run_res_file" ELSE "mru_res_file"
SubEntries(rec) ==
  IF rec.parser = "winreg/windows_run" THEN [i \in 1..rec.entries |-> ToString(i)]
  ELSE PathsOf(rec.blob)

\* what one step put into a stream
Appended(h) == SubSeq(streams'[h], Len(streams[h]) + 1, Len(streams'[h]))

\* C30: within each output stream rows appear in the order of the input
\* records that produced them: every step leaves the rows already in a stream
\* where they are and puts the rows of its record after them; the rows of one
\* fan-out record are put there as one block of rows, one per sub-entry, in
\* sub-entry order.
C30_RowOrder ==
  [][\A h \in Handles :
       /\ Len(streams[h]) <= Len(streams'[h])
       /\ SubSeq(streams'[h], 1, Len(streams[h])) = streams[h]
       /\ (IsFanOut(last'.rec) /\ h = FanOutStream(last'.rec) /\ streams'[h] # streams[h]) =>
            LET new == BodiesOf(Appended(h)) IN
            /\ Len(new) = Len(SubEntries(last'.rec))
            /\ \A k \in 1..Len(new) :
                 new[k].row[Len(new[k].row)].v = SubEntries(last'.rec)[k]
            /\ \A i \in 1..Len(Appended(h)) :
                 Appended(h)[i].k = (IF i % 2 = 1 THEN "body" ELSE "nl")]_vars

\* two fan-out records in a row: the rows of the first, in sub-entry order,
\* followed by the rows of the second
C30_Witness ==
  /\ engine = "json"
  /\ linesRead = 2
  /\ last.rec.blob = BlobMixed
  /\ last.rows = 2
  /\ LET b == BodiesOf(streams["mru_res_file"]) IN
     /\ Len(b) = 4
     /\ [k \in 1..4 |-> b[k].row[Len(b[k].row)].v] = << "C:\\A", "C:\\B", "C:\\A", "C:\\B" >>

====
